---- MODULE Spec2Model ----
(***************************************************************************)
(* Model of the DocStability analysis tools: the strict health-file path   *)
(* classifier shared by the rhythm, intention, ownership and entropy       *)
(* tools, the commit classification loops of the intention and ownership   *)
(* tools, and the contributor identity resolvers.                         *)
(*                                                                         *)
(* Paths, author names and e-mail addresses are modelled as strings and    *)
(* the regular expressions of the source are evaluated character by        *)
(* character on them.                                                      *)
(***************************************************************************)
EXTENDS Integers, Sequences, FiniteSets, TLC

VARIABLES
    p_pc,                \* path classifier run: "start" | "done"
    p_files,             \* the files handed to get_health_files
    p_health,            \* the list get_health_files returned
    c_pc,                \* commit classifier run: "start" | "done"
    c_files,             \* cr.files of the commit being classified
    c_threshold,         \* args.dominant_threshold of that run
    c_int,               \* what the intention loop body computed for it
    c_own,               \* what the ownership loop body computed for it
    id_pc,               \* identity resolver run: "start" | "done"
    id_raw,              \* the %an / %ae header fields of two commits
    id_own,              \* their author_id (ownership tool)
    id_con,              \* their contributor_id (concentration tool)
    pc,                  \* the tools' main(): "loop" | "done"
    dominant_threshold,  \* args.dominant_threshold
    include_bots,        \* args.include_bots
    intention,           \* counters of the intention tool
    ownership,           \* counters and count tables of the ownership tool
    int_row,             \* the summary row the intention tool writes
    own_row,             \* the summary row the ownership tool writes
    m_pc,                \* concentration metrics run: "start" | "done"
    m_counts,            \* the per-contributor (or per-month) count list
    m_k,                 \* the k of the Top-K share
    m_x,                 \* the fraction x of the bus factor
    m_out,               \* what the metric functions returned
    e_pc,                \* entropy tool's main(): "loop" | "done"
    e_since,             \* args.since
    e_until,             \* args.until
    month_counts,        \* month key -> health-doc commits, over the skeleton
    e_total,             \* total_commits_in_range of the entropy tool
    e_health,            \* health_touch_commits of the entropy tool
    e_out,               \* the summary the entropy tool writes
    w_pc,                \* windowing run: "start" | "built"
    w_since,             \* args.since
    w_until,             \* args.until
    w_granularity,       \* "week" | "month"
    windows,             \* the list build_windows returned
    w_date,              \* a commit date handed to window_id_for_date
    w_wid,               \* the window id it was mapped to
    r_pc,                \* rhythm tool's main(): "loop" | "done"
    r_args,              \* since, until, granularity and the label thresholds
    health_dates,        \* commit date -> health-doc commits on that date
    r_metrics,           \* the RhythmMetrics compute_metrics returned
    phi_pc,              \* stability score run: "start" | "done"
    phi_in,              \* sigma and mu handed to the score computation
    phi_out,             \* the cv and phi_c computed from them
    l_pc,                \* log parsers: "parse" | "done"
    l_log,               \* the commits git log reports, newest first
    l_pos,               \* how many of them the parsers have read
    l_parser,            \* tool -> state of its parser and what it yielded
    l_counts,            \* tool -> the health-doc-touch commits it reports
    x_pc,                \* engine -> position in its main()
    x_prefix,            \* engine -> args.out_prefix
    x_optional,          \* whether the optional outputs are switched on
    x_calls,             \* engine -> number of git log calls made
    fs                   \* output path -> the engines that wrote it, in order

pathVars   == <<p_pc, p_files, p_health>>
commitVars == <<c_pc, c_files, c_threshold, c_int, c_own>>
idVars     == <<id_pc, id_raw, id_own, id_con>>
mainVars   == <<pc, dominant_threshold, include_bots, intention, ownership, int_row, own_row>>
metricVars == <<m_pc, m_counts, m_k, m_x, m_out>>
entropyVars == <<e_pc, e_since, e_until, month_counts, e_total, e_health, e_out>>
windowVars == <<w_pc, w_since, w_until, w_granularity, windows, w_date, w_wid>>
rhythmVars == <<r_pc, r_args, health_dates, r_metrics>>
phiVars    == <<phi_pc, phi_in, phi_out>>
logVars    == <<l_pc, l_log, l_pos, l_parser, l_counts>>
runVars    == <<x_pc, x_prefix, x_optional, x_calls, fs>>
ioVars     == <<logVars, runVars>>
statVars   == <<metricVars, entropyVars, windowVars, rhythmVars, phiVars, ioVars>>
vars == <<pathVars, commitVars, idVars, mainVars, statVars>>

(***************************************************************************)
(* Bounds of the model.                                                    *)
(***************************************************************************)
MaxDepth == 2      \* directory levels in front of a generated path
MaxFiles == 3      \* files changed by one commit
MaxCommits == 3    \* commits in the log
MaxLen == 3        \* entries of a count list
MaxCount == 3      \* largest count in a generated count list
MaxMonthCommits == 5  \* commits in the log of the entropy tool
MaxSpanDays == 12  \* days after the first day of each stretch of dates
MaxHealthCommits == 4  \* health-doc commits in the log of the rhythm tool
MaxCvNum == 40     \* largest numerator of a generated coefficient of variation
MaxLogCommits == 3 \* commits in the log handed to the parsers

(***************************************************************************)
(* String helpers: Python's str / re primitives the source relies on.      *)
(***************************************************************************)
Char(s, i) == SubSeq(s, i, i)

StartsWith(s, t) == Len(s) >= Len(t) /\ SubSeq(s, 1, Len(t)) = t

EndsWith(s, t) == Len(s) >= Len(t) /\ SubSeq(s, Len(s) - Len(t) + 1, Len(s)) = t

Contains(s, t) == \E i \in 1..(Len(s) - Len(t) + 1) : SubSeq(s, i, i + Len(t) - 1) = t

\* str.lower() on one ASCII character (also the folding of re.IGNORECASE)
LowerChar(c) ==
    CASE c = "A" -> "a" [] c = "B" -> "b" [] c = "C" -> "c" [] c = "D" -> "d"
      [] c = "E" -> "e" [] c = "F" -> "f" [] c = "G" -> "g" [] c = "H" -> "h"
      [] c = "I" -> "i" [] c = "J" -> "j" [] c = "K" -> "k" [] c = "L" -> "l"
      [] c = "M" -> "m" [] c = "N" -> "n" [] c = "O" -> "o" [] c = "P" -> "p"
      [] c = "Q" -> "q" [] c = "R" -> "r" [] c = "S" -> "s" [] c = "T" -> "t"
      [] c = "U" -> "u" [] c = "V" -> "v" [] c = "W" -> "w" [] c = "X" -> "x"
      [] c = "Y" -> "y" [] c = "Z" -> "z" [] OTHER -> c

RECURSIVE Lower(_)
Lower(s) == IF s = "" THEN "" ELSE LowerChar(Char(s, 1)) \o Lower(SubSeq(s, 2, Len(s)))

\* path.replace("\\", "/")
RECURSIVE ReplaceBackslash(_)
ReplaceBackslash(s) ==
    IF s = "" THEN ""
    ELSE (IF Char(s, 1) = "\\" THEN "/" ELSE Char(s, 1)) \o ReplaceBackslash(SubSeq(s, 2, Len(s)))

(***************************************************************************)
(* PROJECT HEALTH FILE RULES.  Every include pattern has the shape         *)
(* ^STEM(?:\..+)?$ ; the set holds the lower-cased STEMs (RELEASES? gives  *)
(* two).  All patterns are compiled with re.IGNORECASE.                    *)
(***************************************************************************)
ROOT_HEALTH_FILES ==
    { "readme", "contributing", "contributors", "commit_conventions",
      "pull_request_template", "issue_template", "building",
      "changelog", "history", "release", "releases",
      "code_of_conduct", "governance", "support", "maintainers",
      "security", "license", "notice", "copying",
      "authors", "credits", "thanks",
      "roadmap", "vision",
      ".github/security", ".github/contributing", ".github/code_of_conduct",
      ".github/support", ".github/commit_conventions",
      ".github/pull_request_template", ".github/issue_template", ".github/building",
      ".gitlab/contributing", ".gitlab/code_of_conduct", ".gitlab/commit_conventions",
      ".gitlab/pull_request_template", ".gitlab/issue_template", ".gitlab/building" }

(***************************************************************************)
(* EXCLUSION RULES.  Each pattern is a record [k, s]: the shape of the     *)
(* regular expression and its (lower-cased) literal.                       *)
(*   nested   ^[^/]+/[^/]+/                                                *)
(*   prefix   ^s                                                           *)
(*   substr   s            (unanchored)                                    *)
(*   dir      (^|/)s/                                                      *)
(*   suffix   s$                                                           *)
(*   file     (^|/)s$                                                      *)
(***************************************************************************)
Pat(kind, lits) == { [k |-> kind, s |-> l] : l \in lits }

EXCLUDE_PATTERNS ==
    Pat("nested", {""})
    \cup Pat("prefix", { "libs/", "modules/", "x-pack/", "plugin/", "plugins/",
                         "package/", "packages/", "distribution/", "build-tools",
                         "qa/", "test/", "benchmark/", "benchmarks/", "src/" })
    \cup Pat("substr", { "/src/", "/resources/", "/translation/", "/translations/",
                         "/i18n/", "/locale/", "/locales/" })
    \cup Pat("dir",    { "node_modules", "vendor", "dist", "build", "site", "out",
                         "target", ".git", "doc", "docs", "documentation", "wiki",
                         "guide", "guides", "tutorial", "tutorials", "example",
                         "examples", "man", "api", "reference", "test", "tests" })
    \cup Pat("suffix", { ".png", ".jpg", ".jpeg", ".gif", ".svg", ".ico", ".pdf",
                         ".zip", ".tar", ".gz", ".bz2", ".7z", ".rar",
                         ".exe", ".dll", ".so", ".dylib", ".bin",
                         ".java", ".py", ".js", ".ts", ".go", ".rs", ".cpp", ".c",
                         ".h", ".hpp",
                         ".scala", ".kt", ".swift", ".rb", ".php", ".cs", ".fs",
                         "output.txt",
                         ".cef.txt", ".json.txt", ".xml.txt", ".yaml.txt", ".yml.txt",
                         ".zh.md", ".ja.md", ".ko.md", ".fr.md", ".de.md", ".es.md",
                         ".it.md", ".pt.md", ".ru.md" })
    \cup Pat("file",   { "conf.py", "_config.yml", "mkdocs.yml", "doxyfile" })

\* rx.search(p) for one compiled exclusion pattern; p is already case-folded
rx_search(rx, p) ==
    CASE rx.k = "nested" ->
           \E i \in 2..Len(p) :
              /\ Char(p, i) = "/"
              /\ \A h \in 1..(i - 1) : Char(p, h) # "/"
              /\ \E j \in (i + 2)..Len(p) :
                    /\ Char(p, j) = "/"
                    /\ \A h \in (i + 1)..(j - 1) : Char(p, h) # "/"
      [] rx.k = "prefix" -> StartsWith(p, rx.s)
      [] rx.k = "substr" -> Contains(p, rx.s)
      [] rx.k = "dir"    -> StartsWith(p, rx.s \o "/") \/ Contains(p, "/" \o rx.s \o "/")
      [] rx.k = "suffix" -> EndsWith(p, rx.s)
      [] rx.k = "file"   -> p = rx.s \/ EndsWith(p, "/" \o rx.s)

\* rx.match(p) for one compiled include pattern ^STEM(?:\..+)?$
rx_match(stem, p) ==
    \/ p = stem
    \/ StartsWith(p, stem \o ".") /\ Len(p) >= Len(stem) + 2

\* any(rx.search(p) for rx in excl_rx), the patterns compiled with re.IGNORECASE
excl_search(p) == \E rx \in EXCLUDE_PATTERNS : rx_search(rx, Lower(p))

\* any(rx.match(p) for rx in health_rx), the patterns compiled with re.IGNORECASE
health_match(p) == \E stem \in ROOT_HEALTH_FILES : rx_match(stem, Lower(p))

\* The matchers are compiled once per run.  Their verdicts on the paths the
\* tools' loops meet are tabulated once as well; any other path is matched
\* directly, with the same result.
CompiledFor == { "README.md", "CONTRIBUTING.md", "index.html", "footer.html", "src/app.py" }

compile_health_patterns ==
    [ p \in CompiledFor |-> [ excl |-> excl_search(p), health |-> health_match(p) ] ]

is_excluded(path) ==
    LET p == ReplaceBackslash(path)
    IN  IF p \in CompiledFor THEN compile_health_patterns[p].excl ELSE excl_search(p)

is_health_file(path) ==
    LET p == ReplaceBackslash(path)
    IN  IF p \in CompiledFor THEN compile_health_patterns[p].health ELSE health_match(p)

\* variant of keeps_health_file that tests inclusion before exclusion
keeps_health_file_include_first(f) ==
    IF is_health_file(f) THEN TRUE
    ELSE IF is_excluded(f) THEN FALSE
    ELSE FALSE

\* the loop body of get_health_files for one file: exclusions are checked first
keeps_health_file(f) ==
    IF is_excluded(f) THEN FALSE
    ELSE IF is_health_file(f) THEN TRUE
    ELSE FALSE

get_health_files(files) == SelectSeq(files, keeps_health_file)

(***************************************************************************)
(* Bot detection and identity normalization (ownership tool), and the      *)
(* contributor key of the concentration tool.                              *)
(***************************************************************************)
IsSpace(c) == c \in { " ", "\t" }

IsDigit(c) == c \in { "0", "1", "2", "3", "4", "5", "6", "7", "8", "9" }

\* \w on a case-folded character
IsWordChar(c) ==
    \/ IsDigit(c)
    \/ c \in { "a", "b", "c", "d", "e", "f", "g", "h", "i", "j", "k", "l", "m",
               "n", "o", "p", "q", "r", "s", "t", "u", "v", "w", "x", "y", "z", "_" }

\* str.strip()
RECURSIVE LStrip(_)
LStrip(s) == IF s # "" /\ IsSpace(Char(s, 1)) THEN LStrip(SubSeq(s, 2, Len(s))) ELSE s

RECURSIVE RStrip(_)
RStrip(s) == IF s # "" /\ IsSpace(Char(s, Len(s))) THEN RStrip(SubSeq(s, 1, Len(s) - 1)) ELSE s

Strip(s) == RStrip(LStrip(s))

\* re.sub(r"\s+", " ", s)
RECURSIVE CollapseSpaces(_)
CollapseSpaces(s) ==
    IF s = "" THEN ""
    ELSE IF IsSpace(Char(s, 1)) THEN " " \o CollapseSpaces(LStrip(s))
    ELSE Char(s, 1) \o CollapseSpaces(SubSeq(s, 2, Len(s)))

\* rx.search(s) for \bw\b, w a literal of word characters
WordSearch(s, w) ==
    \E i \in 1..(Len(s) - Len(w) + 1) :
       /\ SubSeq(s, i, i + Len(w) - 1) = w
       /\ (i = 1 \/ ~IsWordChar(Char(s, i - 1)))
       /\ (i + Len(w) - 1 = Len(s) \/ ~IsWordChar(Char(s, i + Len(w))))

\* BOT_PATTERNS: [w: the \b...\b patterns, s: the plain substring patterns]
BOT_PATTERNS ==
    [ w |-> { "bot", "bots", "bors" },
      s |-> { "github-actions", "dependabot", "renovate", "greenkeeper", "codecov",
              "coveralls", "travis-ci", "circleci", "jenkins", "azure-pipelines",
              "homu", "mergify", "kodiak", "auto-merge",
              "rust-timer", "rustbot", "rust-highfive",
              "kubernetes-", "k8s-ci-robot", "automation",
              "[bot]", "(bot)", "service account",
              "noreply@", "github.com", "automated",
              "version-bump", "release-bot", "changelog-bot",
              "homebrew-", "allcontributors" } ]

looks_like_bot(name, email) ==
    LET s == Lower(Strip(Strip(name) \o " <" \o Strip(email) \o ">"))
    IN  \/ \E w \in BOT_PATTERNS.w : WordSearch(s, w)
        \/ \E l \in BOT_PATTERNS.s : Contains(s, l)

NOREPLY_SUFFIX == "@users.noreply.github.com"

\* re.match(r"^\d+\+(.+@users\.noreply\.github\.com)$", e): the index of the "+"
\* that ends the digit prefix, or 0 when the pattern does not match
noreply_match(e) ==
    LET hits == { i \in 2..Len(e) :
                    /\ Char(e, i) = "+"
                    /\ \A h \in 1..(i - 1) : IsDigit(Char(e, h))
                    /\ EndsWith(SubSeq(e, i + 1, Len(e)), NOREPLY_SUFFIX)
                    /\ Len(e) - i > Len(NOREPLY_SUFFIX) }
    IN  IF hits = {} THEN 0 ELSE CHOOSE i \in hits : TRUE

normalize_email(email) ==
    LET e == Lower(Strip(email))
        m == noreply_match(e)
    IN  IF m # 0 THEN SubSeq(e, m + 1, Len(e)) ELSE e

normalize_name(name) == Lower(CollapseSpaces(Strip(name)))

author_id(name, email) ==
    LET e == normalize_email(email)
        n == normalize_name(name)
    IN  IF e # "" THEN e ELSE "name:" \o n

\* contrib_concentration.py
contributor_id(author_name, author_email) ==
    IF author_email # "" THEN Lower(author_email) ELSE Lower(Strip(author_name))

(***************************************************************************)
(* Inputs of the identity resolvers: author names and e-mail addresses as  *)
(* they stand in the %an and %ae fields of a log header.                   *)
(***************************************************************************)
RawNames ==
    { "Alice", "alice  LIDDELL ", "bob", " Bob", "bob@x.com", "dependabot[bot]",
      "Release Bot", "rustbot" }

RawEmails ==
    { "", "alice@x.com", " Alice@X.com", "bob@x.com", "name:bob",
      "7+carol@users.noreply.github.com", "carol@users.noreply.github.com",
      "7+carol@users.noreply.gitlab.com", "carol@users.noreply.gitlab.com",
      "49699333+dependabot[bot]@users.noreply.github.com",
      "+x@users.noreply.github.com", "12+@users.noreply.github.com" }

(***************************************************************************)
(* Inputs of the path classifier: generated paths of up to MaxDepth        *)
(* directory levels, plus paths written with a backslash separator and in  *)
(* rename syntax.                                                          *)
(***************************************************************************)
DirNames  == { "src", "docs", ".github", ".gitlab", "web", "README.d" }
FileStems == { "README", "Readme", "SECURITY", "NOTES", "conf", "index", "x" }
FileExts  == { "", ".md", ".py", ".zh.md", ".html", "." }
FileNames == { s \o e : s \in FileStems, e \in FileExts }

RECURSIVE DirPrefixes(_)
DirPrefixes(n) ==
    IF n = 0 THEN { "" }
    ELSE LET shorter == DirPrefixes(n - 1)
         IN  shorter \cup { d \o "/" \o q : d \in DirNames, q \in shorter }

RenameSides == { "README.md", "NOTES.md", "OLD.md", "docs/README.md", "src/app.py" }
RenamePaths ==
    { a \o " => " \o b : a \in RenameSides, b \in RenameSides }
    \cup { "{" \o a \o " => " \o b \o "}" : a \in RenameSides, b \in RenameSides }
    \cup { "{ " \o a \o " => " \o b \o " }" : a \in RenameSides, b \in RenameSides }

BackslashPaths == { ".github\\SECURITY.md", "docs\\README.md", "a\\b\\README.md" }

PathUniverse ==
    { d \o f : d \in DirPrefixes(MaxDepth), f \in FileNames }
    \cup RenamePaths \cup BackslashPaths

(***************************************************************************)
(* Commit classification.  args.dominant_threshold is a fraction n/d; the  *)
(* comparison share >= threshold is made on cross products.                *)
(***************************************************************************)
Thresholds ==
    { [n |-> 0, d |-> 1], [n |-> 1, d |-> 4], [n |-> 1, d |-> 3], [n |-> 1, d |-> 2],
      [n |-> 2, d |-> 3], [n |-> 1, d |-> 1], [n |-> 3, d |-> 2] }

\* t1 <= t2 on thresholds
ThresholdLeq(t1, t2) == t1.n * t2.d <= t2.n * t1.d

\* variant of share_ge that compares with > (ties lose)
share_gt(n_health, total_files, threshold) ==
    n_health * threshold.d > threshold.n * total_files

\* variant of share_ge with the comparison turned round
share_le(n_health, total_files, threshold) ==
    n_health * threshold.d <= threshold.n * total_files

\* share >= threshold, with share = n_health / total_files
share_ge(n_health, total_files, threshold) ==
    n_health * threshold.d >= threshold.n * total_files

\* variant of intention_classify that counts excluded paths as other files
intention_classify_excluded_as_other(files, threshold) ==
    LET health_files == get_health_files(files)
        other_files  == SelectSeq(files, LAMBDA f : is_excluded(f) \/ ~is_health_file(f))
    IN  IF health_files = <<>>
        THEN [ category |-> "no_touch", health_files |-> <<>>, other_files |-> <<>> ]
        ELSE [ category |->
                 IF Len(other_files) = 0 THEN "health_docs_only"
                 ELSE IF share_ge(Len(health_files),
                                  Len(health_files) + Len(other_files), threshold)
                      THEN "health_docs_dominant_mixed"
                      ELSE "health_docs_mixed_non_dominant",
               health_files |-> health_files,
               other_files  |-> other_files ]

\* Intention_docs.py main(), the classification of one commit
intention_classify(files, threshold) ==
    LET health_files == get_health_files(files)
        other_files  == SelectSeq(files, LAMBDA f : ~is_excluded(f) /\ ~is_health_file(f))
    IN  IF health_files = <<>>
        THEN [ category |-> "no_touch", health_files |-> <<>>, other_files |-> <<>> ]
        ELSE [ category |->
                 IF Len(other_files) = 0 THEN "health_docs_only"
                 ELSE IF share_ge(Len(health_files),
                                  Len(health_files) + Len(other_files), threshold)
                      THEN "health_docs_dominant_mixed"
                      ELSE "health_docs_mixed_non_dominant",
               health_files |-> health_files,
               other_files  |-> other_files ]

\* doc_commit_ownership.py main(), the classification of one commit
ownership_classify(files, threshold) ==
    LET n_health == Len(get_health_files(files))
        n_other  == Len(SelectSeq(files, LAMBDA f : ~is_excluded(f) /\ ~is_health_file(f)))
    IN  IF n_health = 0
        THEN [ category |-> "no_touch", n_health |-> 0, n_other |-> 0 ]
        ELSE [ category |->
                 IF n_other = 0 THEN "only"
                 ELSE IF share_ge(n_health, n_health + n_other, threshold)
                      THEN "dom" ELSE "nondom",
               n_health |-> n_health,
               n_other  |-> n_other ]

(***************************************************************************)
(* Count tables (Python dicts keyed by contributor identity).              *)
(***************************************************************************)
EmptyDict == << >>

Get(d, k) == IF k \in DOMAIN d THEN d[k] ELSE 0

\* d[k] = d.get(k, 0) + 1
Incr(d, k) == [ x \in (DOMAIN d) \cup {k} |-> IF x = k THEN Get(d, k) + 1 ELSE d[x] ]

RECURSIVE SumKeys(_, _)
SumKeys(d, K) ==
    IF K = {} THEN 0
    ELSE LET k == CHOOSE x \in K : TRUE IN d[k] + SumKeys(d, K \ {k})

\* sum(d.values())
SumValues(d) == SumKeys(d, DOMAIN d)

(***************************************************************************)
(* The record the log parser yields for one commit: header fields and file *)
(* lines are stripped, blank file lines dropped.                           *)
(***************************************************************************)
CommitRecord(an, ae, file_lines) ==
    [ author_name  |-> Strip(an),
      author_email |-> Strip(ae),
      files        |-> SelectSeq([ i \in DOMAIN file_lines |-> Strip(file_lines[i]) ],
                                 LAMBDA f : f # "") ]

(***************************************************************************)
(* Intention tool: loop body and summary row.                              *)
(***************************************************************************)
IntentionStart ==
    [ total_commits_in_range                 |-> 0,
      health_docs_touch_commits              |-> 0,
      health_docs_only_commits               |-> 0,
      health_docs_dominant_mixed_commits     |-> 0,
      health_docs_mixed_non_dominant_commits |-> 0 ]

\* variant of IntentionLoopBody that forgets to count non-dominant commits
IntentionLoopBody_no_non_dominant(st, cr, threshold) ==
    LET cls == intention_classify(cr.files, threshold)
        s1  == [ st EXCEPT !.total_commits_in_range = @ + 1 ]
    IN  IF cls.category = "no_touch" THEN s1
        ELSE LET s2 == [ s1 EXCEPT !.health_docs_touch_commits = @ + 1 ]
             IN  IF cls.category = "health_docs_only"
                 THEN [ s2 EXCEPT !.health_docs_only_commits = @ + 1 ]
                 ELSE IF cls.category = "health_docs_dominant_mixed"
                 THEN [ s2 EXCEPT !.health_docs_dominant_mixed_commits = @ + 1 ]
                 ELSE s2

IntentionLoopBody(st, cr, threshold) ==
    LET cls == intention_classify(cr.files, threshold)
        s1  == [ st EXCEPT !.total_commits_in_range = @ + 1 ]
    IN  IF cls.category = "no_touch" THEN s1
        ELSE LET s2 == [ s1 EXCEPT !.health_docs_touch_commits = @ + 1 ]
             IN  IF cls.category = "health_docs_only"
                 THEN [ s2 EXCEPT !.health_docs_only_commits = @ + 1 ]
                 ELSE IF cls.category = "health_docs_dominant_mixed"
                 THEN [ s2 EXCEPT !.health_docs_dominant_mixed_commits = @ + 1 ]
                 ELSE [ s2 EXCEPT !.health_docs_mixed_non_dominant_commits = @ + 1 ]

IntentionRow(st) ==
    [ total_commits_in_range                 |-> st.total_commits_in_range,
      health_docs_touch_commits              |-> st.health_docs_touch_commits,
      health_docs_only_commits               |-> st.health_docs_only_commits,
      health_docs_dominant_mixed_commits     |-> st.health_docs_dominant_mixed_commits,
      health_docs_mixed_non_dominant_commits |-> st.health_docs_mixed_non_dominant_commits,
      partition_check_sum |-> st.health_docs_only_commits
                              + st.health_docs_dominant_mixed_commits
                              + st.health_docs_mixed_non_dominant_commits ]

(***************************************************************************)
(* Ownership tool: loop body, summarize_counts and summary row.            *)
(***************************************************************************)
OwnershipStart ==
    [ total_commits_in_range |-> 0,
      counts_touch_all  |-> EmptyDict, counts_only_all   |-> EmptyDict,
      counts_dom_all    |-> EmptyDict, counts_nondom_all |-> EmptyDict,
      counts_touch_attr |-> EmptyDict, counts_only_attr  |-> EmptyDict,
      counts_dom_attr   |-> EmptyDict, counts_nondom_attr |-> EmptyDict ]

\* the "_all" tables are updated for every health-doc commit
CountAll(st, aid, category) ==
    LET s1 == [ st EXCEPT !.counts_touch_all = Incr(@, aid) ]
    IN  IF category = "only" THEN [ s1 EXCEPT !.counts_only_all = Incr(@, aid) ]
        ELSE IF category = "dom" THEN [ s1 EXCEPT !.counts_dom_all = Incr(@, aid) ]
        ELSE [ s1 EXCEPT !.counts_nondom_all = Incr(@, aid) ]

\* variant: the touch table of the attribution counts every author, only
\* its three sub-category tables skip bots
CountAttr_touch_unfiltered(st, aid, category, is_bot, incl_bots) ==
    LET s1 == [ st EXCEPT !.counts_touch_attr = Incr(@, aid) ]
    IN  IF incl_bots \/ ~is_bot
        THEN IF category = "only" THEN [ s1 EXCEPT !.counts_only_attr = Incr(@, aid) ]
             ELSE IF category = "dom" THEN [ s1 EXCEPT !.counts_dom_attr = Incr(@, aid) ]
             ELSE [ s1 EXCEPT !.counts_nondom_attr = Incr(@, aid) ]
        ELSE s1

\* the "_attr" tables skip bots unless --include_bots
CountAttr(st, aid, category, is_bot, incl_bots) ==
    IF incl_bots \/ ~is_bot
    THEN LET s1 == [ st EXCEPT !.counts_touch_attr = Incr(@, aid) ]
         IN  IF category = "only" THEN [ s1 EXCEPT !.counts_only_attr = Incr(@, aid) ]
             ELSE IF category = "dom" THEN [ s1 EXCEPT !.counts_dom_attr = Incr(@, aid) ]
             ELSE [ s1 EXCEPT !.counts_nondom_attr = Incr(@, aid) ]
    ELSE st

\* variant of OwnershipLoopBody that filters bots out of the "_all" tables too
OwnershipLoopBody_bots_filtered(st, cr, threshold, incl_bots) ==
    LET s1     == [ st EXCEPT !.total_commits_in_range = @ + 1 ]
        is_bot == looks_like_bot(cr.author_name, cr.author_email)
        cls    == ownership_classify(cr.files, threshold)
        aid    == author_id(cr.author_name, cr.author_email)
    IN  IF cls.n_health = 0 THEN s1
        ELSE IF incl_bots \/ ~is_bot
        THEN CountAttr(CountAll(s1, aid, cls.category), aid, cls.category, is_bot, incl_bots)
        ELSE s1

OwnershipLoopBody(st, cr, threshold, incl_bots) ==
    LET s1     == [ st EXCEPT !.total_commits_in_range = @ + 1 ]
        is_bot == looks_like_bot(cr.author_name, cr.author_email)
        cls    == ownership_classify(cr.files, threshold)
        aid    == author_id(cr.author_name, cr.author_email)
    IN  IF cls.n_health = 0 THEN s1
        ELSE CountAttr(CountAll(s1, aid, cls.category), aid, cls.category, is_bot, incl_bots)

summarize_counts(all_d, attr_d) ==
    [ commits      |-> SumValues(all_d),
      contributors |-> Cardinality(DOMAIN attr_d) ]

OwnershipRow(st) ==
    LET touch_all  == SumValues(st.counts_touch_all)
        only_all   == SumValues(st.counts_only_all)
        dom_all    == SumValues(st.counts_dom_all)
        nondom_all == SumValues(st.counts_nondom_all)
    IN  [ total_commits_in_range   |-> st.total_commits_in_range,
          health_docs_touch        |-> summarize_counts(st.counts_touch_all, st.counts_touch_attr),
          health_docs_only         |-> summarize_counts(st.counts_only_all, st.counts_only_attr),
          health_docs_dominant     |-> summarize_counts(st.counts_dom_all, st.counts_dom_attr),
          health_docs_non_dominant |-> summarize_counts(st.counts_nondom_all, st.counts_nondom_attr),
          health_docs_partition_check     |-> (touch_all = only_all + dom_all + nondom_all),
          health_docs_partition_touch     |-> touch_all,
          health_docs_partition_sum_parts |-> only_all + dom_all + nondom_all ]

(***************************************************************************)
(* Inputs of the commit classifier and of the tools' loops.                *)
(***************************************************************************)
CommitPaths == CompiledFor

RECURSIVE SeqsUpTo(_, _)
SeqsUpTo(S, n) ==
    IF n = 0 THEN { << >> }
    ELSE LET shorter == SeqsUpTo(S, n - 1)
         IN  shorter \cup { Append(q, x) : q \in shorter, x \in S }

CommitFileLists == SeqsUpTo(CommitPaths, MaxFiles)

LogFileLists ==
    { << >>,
      << "src/app.py" >>,
      << "index.html" >>,
      << "README.md" >>,
      << "README.md", "src/app.py" >>,
      << "README.md", "index.html" >>,
      << "CONTRIBUTING.md", "index.html", "footer.html" >>,
      << "README.md", " CONTRIBUTING.md", "index.html" >> }

LogAuthors ==
    { << "Alice", "alice@x.com" >>,
      << "alice  LIDDELL ", " Alice@X.com" >>,
      << "bob", "" >>,
      << "dependabot[bot]", "49699333+dependabot[bot]@users.noreply.github.com" >> }

(***************************************************************************)
(* The text of git log and the parsers that read it.  An optional value is *)
(* a sequence: << >> for Python's None, <<v>> for the value v.             *)
(***************************************************************************)
\* s.split(sep) for a separator of one character
RECURSIVE split(_, _)
split(s, sep) ==
    IF ~Contains(s, sep) THEN <<s>>
    ELSE LET i == CHOOSE j \in 1..Len(s) :
                     Char(s, j) = sep /\ \A k \in 1..(j - 1) : Char(s, k) # sep
         IN  <<SubSeq(s, 1, i - 1)>> \o split(SubSeq(s, i + 1, Len(s)), sep)

DigitValue(c) ==
    CASE c = "0" -> 0 [] c = "1" -> 1 [] c = "2" -> 2 [] c = "3" -> 3 [] c = "4" -> 4
      [] c = "5" -> 5 [] c = "6" -> 6 [] c = "7" -> 7 [] c = "8" -> 8 [] c = "9" -> 9

RECURSIVE DigitsValue(_)
DigitsValue(s) ==
    IF s = "" THEN 0
    ELSE 10 * DigitsValue(SubSeq(s, 1, Len(s) - 1)) + DigitValue(Char(s, Len(s)))

\* int(s) on text: surrounding blanks and a sign are accepted; << >> stands
\* for the ValueError
int(s) ==
    LET t == Strip(s)
        signed == t # "" /\ Char(t, 1) \in { "+", "-" }
        digits == IF signed THEN SubSeq(t, 2, Len(t)) ELSE t
    IN  IF digits # "" /\ \A i \in 1..Len(digits) : IsDigit(Char(digits, i))
        THEN << (IF signed /\ Char(t, 1) = "-" THEN -1 ELSE 1) * DigitsValue(digits) >>
        ELSE << >>

\* the tools that read git log --name-only, and all the tools that read git log
NameOnlyTools == { "rhythm", "intention", "ownership", "entropy" }
LogTools == NameOnlyTools \cup { "concentration" }

\* --pretty=format: of each tool, filled in for one commit
pretty_format(tool, sha, c) ==
    CASE tool = "ownership" ->
           "__COMMIT__" \o sha \o "\t" \o c.ct \o "\t" \o c.an \o "\t" \o c.ae
      [] tool = "concentration" ->
           sha \o "\t" \o c.at \o "\t" \o c.an \o "\t" \o c.ae
      [] OTHER -> "__COMMIT__" \o sha \o "\t" \o c.ct

\* raw.splitlines() for one commit: the header, with --name-only the changed
\* paths, and the empty line that separates it from the next commit
git_log(tool, sha, c) ==
    IF tool = "concentration" THEN << pretty_format(tool, sha, c) >>
    ELSE << pretty_format(tool, sha, c) >> \o c.names \o << "" >>

\* sha, epoch, an, ae, files of the parser loop, and the records yielded
ParserStart ==
    [ sha |-> << >>, epoch |-> << >>, an |-> "", ae |-> "", files |-> << >>,
      out |-> << >> ]

\* yield CommitRecord(...) for the commit being collected, if there is one
flush(tool, st) ==
    IF st.sha # << >> /\ st.epoch # << >>
    THEN LET files == SelectSeq(st.files, LAMBDA f : f # "")
             cr == IF tool = "ownership"
                   THEN [ sha |-> st.sha[1], commit_dt |-> st.epoch[1],
                          author_name |-> st.an, author_email |-> st.ae,
                          files |-> files ]
                   ELSE [ sha |-> st.sha[1], commit_dt |-> st.epoch[1], files |-> files ]
         IN  [ st EXCEPT !.out = Append(@, cr) ]
    ELSE st

header_fields(tool) == IF tool = "ownership" THEN 4 ELSE 2

\* variant: a header that cannot be read leaves the commit before it open, so
\* that the lines after the bad header are added to that commit
parse_line_keep_open(tool, st, line) ==
    IF StartsWith(line, "__COMMIT__")
    THEN LET header == SubSeq(line, Len("__COMMIT__") + 1, Len(line))
             parts == split(header, "\t")
             epoch == IF Len(parts) = header_fields(tool) THEN int(Strip(parts[2]))
                      ELSE << >>
         IN  IF epoch = << >> THEN st
             ELSE [ flush(tool, st) EXCEPT
                      !.files = << >>,
                      !.sha = << Strip(parts[1]) >>, !.epoch = epoch,
                      !.an = IF tool = "ownership" THEN Strip(parts[3]) ELSE "",
                      !.ae = IF tool = "ownership" THEN Strip(parts[4]) ELSE "" ]
    ELSE IF st.sha # << >> /\ Strip(line) # ""
    THEN [ st EXCEPT !.files = Append(@, Strip(line)) ]
    ELSE st

\* the body of "for line in raw.splitlines()" in iter_commits_with_files
parse_line(tool, st, line) ==
    IF StartsWith(line, "__COMMIT__")
    THEN LET s1 == [ flush(tool, st) EXCEPT !.files = << >> ]
             header == SubSeq(line, Len("__COMMIT__") + 1, Len(line))
             parts == split(header, "\t")
             dropped == [ s1 EXCEPT !.sha = << >>, !.epoch = << >>,
                                    !.an = "", !.ae = "" ]
         IN  IF Len(parts) # header_fields(tool) THEN dropped
             ELSE LET epoch == int(Strip(parts[2]))
                  IN  IF epoch = << >> THEN dropped
                      ELSE [ s1 EXCEPT
                               !.sha = << Strip(parts[1]) >>, !.epoch = epoch,
                               !.an = IF tool = "ownership" THEN Strip(parts[3]) ELSE "",
                               !.ae = IF tool = "ownership" THEN Strip(parts[4]) ELSE "" ]
    ELSE IF st.sha # << >> /\ Strip(line) # ""
    THEN [ st EXCEPT !.files = Append(@, Strip(line)) ]
    ELSE st

\* the body of "for line in raw.splitlines()" in iter_commits of the
\* concentration tool
iter_commits_line(st, line) ==
    LET parts == split(line, "\t")
    IN  IF Len(parts) # 4 THEN st
        ELSE LET epoch == int(parts[2])
             IN  IF epoch = << >> THEN st
                 ELSE [ st EXCEPT !.out = Append(@,
                          [ epoch |-> epoch[1], author_name |-> Strip(parts[3]),
                            author_email |-> Strip(parts[4]) ]) ]

RECURSIVE parse_lines(_, _, _)
parse_lines(tool, st, lines) ==
    IF lines = << >> THEN st
    ELSE parse_lines(tool,
                     IF tool = "concentration" THEN iter_commits_line(st, Head(lines))
                     ELSE parse_line(tool, st, Head(lines)),
                     Tail(lines))

\* the flush after the loop
end_of_log(tool, st) == IF tool = "concentration" THEN st ELSE flush(tool, st)

\* rhythm and entropy tools: the commits with at least one health file
health_touch(records) ==
    Len(SelectSeq(records, LAMBDA cr : get_health_files(cr.files) # << >>))

RECURSIVE intention_loop(_, _)
intention_loop(st, records) ==
    IF records = << >> THEN st
    ELSE intention_loop(IntentionLoopBody(st, Head(records), [n |-> 1, d |-> 2]),
                        Tail(records))

RECURSIVE ownership_loop(_, _)
ownership_loop(st, records) ==
    IF records = << >> THEN st
    ELSE ownership_loop(OwnershipLoopBody(st, Head(records), [n |-> 1, d |-> 2], FALSE),
                        Tail(records))

\* the health-doc-touch commit count each tool reports
touch_counts(parser) ==
    [ rhythm    |-> health_touch(parser["rhythm"].out),
      intention |-> intention_loop(IntentionStart, parser["intention"].out)
                       .health_docs_touch_commits,
      ownership |-> SumValues(ownership_loop(OwnershipStart, parser["ownership"].out)
                                 .counts_touch_all),
      entropy   |-> health_touch(parser["entropy"].out) ]

\* the commit hash of the i-th commit of the log
ShaOf(i) == "c" \o <<"1", "2", "3", "4", "5", "6", "7", "8", "9">>[i]

\* Commits of the log: committer and author time, author name and e-mail as
\* git prints them, and the lines of --name-only.
LogCommits ==
    { [ ct |-> "1704067200", at |-> "1704067200", an |-> "Ann", ae |-> "ann@x.org",
        names |-> << "README.md" >> ],
      [ ct |-> "1704153600", at |-> "1704153600", an |-> "Bob", ae |-> "",
        names |-> << "src/a.py" >> ],
      [ ct |-> "1704240000", at |-> "1704240000", an |-> "A\tB", ae |-> "ab@x.org",
        names |-> << "README.md", "src/a.py" >> ],
      [ ct |-> "soon", at |-> "soon", an |-> "Cy", ae |-> "cy@x.org",
        names |-> << "CONTRIBUTING.md" >> ],
      [ ct |-> "1704\t326400", at |-> "1704\t326400", an |-> "Di", ae |-> "di@x.org",
        names |-> << "README.md" >> ],
      [ ct |-> "1704412800", at |-> "1704412800", an |-> "Ed", ae |-> "ed@x.org",
        names |-> << "README.md", "README.md ", "src/a.py" >> ],
      [ ct |-> " 1704499200", at |-> " 1704499200", an |-> "Flo ", ae |-> "flo@x.org",
        names |-> << " SECURITY.md ", "src/a.py" >> ] }

(***************************************************************************)
(* The main() of the four engines as processes over one output directory:  *)
(* the git log call, the loop over the whole log, then the output files,   *)
(* written one after the other.                                            *)
(***************************************************************************)
Engines == NameOnlyTools

\* the default of --out_prefix
default_prefix(e) ==
    CASE e = "rhythm" -> "health_files"
      [] e = "intention" -> "intention"
      [] e = "ownership" -> "ownership"
      [] e = "entropy" -> "health_docs_entropy"

\* os.path.join("outputs", repo_name) for the repository analysed
out_dir == "outputs/repo/"

\* the paths an engine opens for writing, in the order it opens them;
\* optional says whether its --write_... switches are on
output_paths(e, prefix, optional) ==
    LET path(suffix) == out_dir \o prefix \o suffix
    IN  CASE e = "rhythm" ->
               << path("_rhythm_metrics.csv") >>
               \o (IF optional
                   THEN << path("_window_counts.csv"), path("_file_details.csv") >>
                   ELSE << >>)
               \o << path("_summary.json") >>
          [] e = "intention" ->
               << path("_health_docs_intention_summary.csv") >>
               \o (IF optional
                   THEN << path("_health_docs_touch_shas.txt"),
                           path("_health_docs_commit_classification.csv") >>
                   ELSE << >>)
               \o << path("_summary.json") >>
          [] e = "ownership" ->
               << path("_health_docs_ownership_summary.csv"), path("_summary.json") >>
          [] e = "entropy" ->
               << path("_monthly_distribution.csv"), path("_entropy_summary.csv") >>
               \o (IF optional THEN << path("_health_docs_touch_shas.txt") >> ELSE << >>)
               \o << path("_summary.json") >>

\* variant: the exit status of git is not looked at
run_git_unchecked(returncode) == "output"

\* subprocess.check_output: the output of git, or CalledProcessError when git
\* exits with a non-zero status
run_git(returncode) == IF returncode # 0 THEN "CalledProcessError" ELSE "output"

\* open(path, "w") followed by the writes of engine e
open_w(files, path, e) ==
    [ q \in (DOMAIN files) \cup { path } |->
        IF q = path
        THEN Append(IF path \in DOMAIN files THEN files[path] ELSE << >>, e)
        ELSE files[q] ]

(***************************************************************************)
(* Numbers.  A Python float is modelled by the exact rational it stands    *)
(* for, [n |-> numerator, d |-> denominator] in lowest terms with d > 0;   *)
(* Python's None is the value 0/0, and a division by zero gives 1/0.       *)
(***************************************************************************)
RECURSIVE GCD(_, _)
GCD(a, b) == IF b = 0 THEN a ELSE GCD(b, a % b)

Abs(a) == IF a < 0 THEN -a ELSE a

\* the outcome of a division by zero: the exception, kept as a value that
\* every later operation passes on
ZeroDivisionError == [n |-> 1, d |-> 0]
Raised(v) == v = ZeroDivisionError

Rat(n, d) ==
    LET g == GCD(Abs(n), Abs(d))
        sg == IF d < 0 THEN -1 ELSE 1
    IN  IF d = 0 THEN ZeroDivisionError
        ELSE IF n = 0 THEN [n |-> 0, d |-> 1]
        ELSE [n |-> sg * (n \div g), d |-> sg * (d \div g)]

None == [n |-> 0, d |-> 0]
IsNone(v) == v = None

Zero == Rat(0, 1)
One == Rat(1, 1)

RatAdd(a, b) == Rat(a.n * b.d + b.n * a.d, a.d * b.d)
RatSub(a, b) == Rat(a.n * b.d - b.n * a.d, a.d * b.d)
RatMul(a, b) == Rat(a.n * b.n, a.d * b.d)
RatDiv(a, b) == IF a.d = 0 \/ b.d = 0 THEN ZeroDivisionError ELSE Rat(a.n * b.d, a.d * b.n)
RatLeq(a, b) == a.n * b.d <= b.n * a.d
RatLt(a, b) == a.n * b.d < b.n * a.d
RatMax(a, b) == IF RatLeq(a, b) THEN b ELSE a
RatMin(a, b) == IF RatLeq(a, b) THEN a ELSE b

(***************************************************************************)
(* Lists of counts: sum(), sorted(), slicing.                              *)
(***************************************************************************)
RECURSIVE sum(_)
sum(xs) == IF xs = << >> THEN 0 ELSE Head(xs) + sum(Tail(xs))

RECURSIVE Insert(_, _)
Insert(x, xs) ==
    IF xs = << >> THEN <<x>>
    ELSE IF x <= Head(xs) THEN <<x>> \o xs
    ELSE <<Head(xs)>> \o Insert(x, Tail(xs))

RECURSIVE sorted(_)
sorted(xs) == IF xs = << >> THEN << >> ELSE Insert(Head(xs), sorted(Tail(xs)))

Reverse(xs) == [i \in 1..Len(xs) |-> xs[Len(xs) + 1 - i]]

sorted_reverse(xs) == Reverse(sorted(xs))

\* variant: the slice stops one element early
Take_one_short(xs, k) == SubSeq(xs, 1, IF k - 1 < Len(xs) THEN k - 1 ELSE Len(xs))

\* xs[:k] for k >= 0
Take(xs, k) == SubSeq(xs, 1, IF k < Len(xs) THEN k ELSE Len(xs))

\* sum(i * x for i, x in enumerate(xs, start=1))
RECURSIVE weighted_sum(_, _)
weighted_sum(xs, i) ==
    IF xs = << >> THEN 0 ELSE i * Head(xs) + weighted_sum(Tail(xs), i + 1)

(***************************************************************************)
(* Concentration metrics of the ownership tool.                            *)
(***************************************************************************)
top_k_share(counts, k) ==
    IF counts = << >> THEN Zero
    ELSE LET total == sum(counts)
         IN  IF total <= 0 THEN Zero
             ELSE Rat(sum(Take(sorted_reverse(counts), k)), total)

\* variant: the target must be exceeded, not met
RECURSIVE bus_x_loop_strict(_, _, _, _, _)
bus_x_loop_strict(desc, k, cum, total, x) ==
    IF k > Len(desc) THEN Len(desc)
    ELSE LET cum2 == cum + desc[k]
         IN  IF cum2 * x.d > x.n * total THEN k
             ELSE bus_x_loop_strict(desc, k + 1, cum2, total, x)

\* The loop of bus_x from position k on, cum being the sum before it.  The
\* test is cum >= x * total - 1e-12; for x = n/d the difference
\* cum - x * total is a multiple of 1/d, far coarser than the tolerance, so
\* the test is cum * d >= n * total.
RECURSIVE bus_x_loop(_, _, _, _, _)
bus_x_loop(desc, k, cum, total, x) ==
    IF k > Len(desc) THEN Len(desc)
    ELSE LET cum2 == cum + desc[k]
         IN  IF cum2 * x.d >= x.n * total THEN k
             ELSE bus_x_loop(desc, k + 1, cum2, total, x)

bus_x(counts, x) ==
    IF counts = << >> THEN 0
    ELSE LET total == sum(counts)
         IN  IF total <= 0 THEN 0
             ELSE bus_x_loop(sorted_reverse(counts), 1, 0, total, x)

(***************************************************************************)
(* Concentration metrics of the concentration tool.                        *)
(***************************************************************************)
gini(values) ==
    IF values = << >> THEN Zero
    ELSE LET vals == SelectSeq(values, LAMBDA v : v >= 0)
             n == Len(vals)
             total == sum(vals)
         IN  IF n < 2 \/ total = 0 THEN Zero
             ELSE LET g == RatSub(Rat(2 * weighted_sum(sorted(vals), 1), n * total),
                                  Rat(n + 1, n))
                  IN  RatMax(Zero, RatMin(One, g))

\* counts_desc is a list of (contributor, count) pairs
topk_share(counts_desc, k) ==
    LET cs == [i \in 1..Len(counts_desc) |-> counts_desc[i][2]]
        total == sum(cs)
    IN  IF total = 0 THEN Zero ELSE Rat(sum(Take(cs, k)), total)

\* sorted(human_counts.items(), key=lambda kv: kv[1], reverse=True): a stable
\* sort, the pairs with equal counts keep their order
RECURSIVE InsertDesc(_, _)
InsertDesc(kv, kvs) ==
    IF kvs = << >> THEN <<kv>>
    ELSE IF kv[2] >= Head(kvs)[2] THEN <<kv>> \o kvs
    ELSE <<Head(kvs)>> \o InsertDesc(kv, Tail(kvs))

RECURSIVE human_desc(_)
human_desc(items) ==
    IF items = << >> THEN << >> ELSE InsertDesc(Head(items), human_desc(Tail(items)))

(***************************************************************************)
(* Concentration metrics of the entropy tool (over month counts).          *)
(***************************************************************************)
month_top_k_share(counts, k) ==
    LET total == sum(counts)
    IN  IF total <= 0 THEN None
        ELSE Rat(sum(Take(sorted_reverse(counts), k)), total)

gini_from_counts(counts) ==
    LET total == sum(counts)
    IN  IF total <= 0 THEN None
        ELSE LET xs == sorted(counts)
                 n == Len(xs)
             IN  IF n = 0 THEN None
                 ELSE RatSub(Rat(2 * weighted_sum(xs, 1), n * total), Rat(n + 1, n))

(***************************************************************************)
(* Dates and the monthly skeleton of the entropy tool.                     *)
(***************************************************************************)
Date(y, m, d) == [year |-> y, month |-> m, day |-> d]

\* f"{y:04d}-{m:02d}": a month key, kept as the pair it is formatted from
MonthKey(y, m) == <<y, m>>

RECURSIVE iter_month_keys_loop(_, _, _, _)
iter_month_keys_loop(y, m, ey, em) ==
    IF (y < ey) \/ (y = ey /\ m <= em)
    THEN <<MonthKey(y, m)>> \o
         (IF m + 1 = 13 THEN iter_month_keys_loop(y + 1, 1, ey, em)
          ELSE iter_month_keys_loop(y, m + 1, ey, em))
    ELSE << >>

iter_month_keys(since, until) ==
    iter_month_keys_loop(since.year, since.month, until.year, until.month)

(***************************************************************************)
(* Normalised Shannon entropy.  With T = total and M = len(counts) the     *)
(* value H / ln(M) is log(arg) / log(base) for arg = prod (T/c)^c over the *)
(* positive counts and base = M^T; it is kept as that pair, so that its    *)
(* comparisons with 0 and 1 are exact.  The floating-point sum of the      *)
(* source differs from the real value by rounding: ulps is the sign of     *)
(* that difference, -1, 0 or 1.  It decides a comparison only when the     *)
(* real value is exactly 0 or 1: the value 0 (one month holds every        *)
(* commit, p = 1.0, log(p) = 0.0) is computed without rounding, and so is  *)
(* the value 1 of two equal months (p = 0.5, H = 2 * 0.5 * log(2)); with a *)
(* p that the division rounds, or a sum of three or more terms, the        *)
(* result may fall on either side of the real value.                       *)
(***************************************************************************)
RECURSIVE Pow(_, _)
Pow(b, e) == IF e = 0 THEN 1 ELSE b * Pow(b, e - 1)

RECURSIVE PowProduct(_)
PowProduct(counts) ==
    IF counts = << >> THEN 1
    ELSE (IF Head(counts) <= 0 THEN 1 ELSE Pow(Head(counts), Head(counts)))
         * PowProduct(Tail(counts))

RECURSIVE IsPowerOfTwo(_)
IsPowerOfTwo(n) == n = 1 \/ (n % 2 = 0 /\ IsPowerOfTwo(n \div 2))

EntropyNone == [null |-> TRUE, arg |-> Zero, base |-> 0, ulps |-> 0]
EntropyZero == [null |-> FALSE, arg |-> One, base |-> 2, ulps |-> 0]
EntropyOne == [null |-> FALSE, arg |-> Rat(2, 1), base |-> 2, ulps |-> 0]

\* log(arg)/log(base) compared with 1, without multiplying large numbers
ArgBelowBase(arg, base) == arg.n \div arg.d < base
ArgIsBase(arg, base) == arg.n % arg.d = 0 /\ arg.n \div arg.d = base

\* variant: the normaliser counts the active months only
entropy_norm_active_months(counts, drift) ==
    LET total == sum(counts)
        M == Len(SelectSeq(counts, LAMBDA c : c > 0))
    IN  IF total <= 0 THEN EntropyNone
        ELSE IF M <= 1 THEN EntropyZero
        ELSE [null |-> FALSE, arg |-> Rat(Pow(total, total), PowProduct(counts)),
              base |-> Pow(M, total), ulps |-> 0]

entropy_norm(counts, drift) ==
    LET total == sum(counts)
        M == Len(counts)
        arg == Rat(Pow(total, total), PowProduct(counts))
        base == Pow(M, total)
        \* p = c / total is rounded unless its denominator is a power of two,
        \* and a running sum of three or more terms is rounded
        rounds == \/ \E i \in 1..Len(counts) :
                        /\ 0 < counts[i]
                        /\ ~IsPowerOfTwo(total \div GCD(counts[i], total))
                  \/ Len(SelectSeq(counts, LAMBDA c : c > 0)) >= 3
        ulps == IF rounds THEN drift ELSE 0
    IN  IF total <= 0 THEN EntropyNone
        ELSE IF M <= 1 THEN EntropyZero
        \* max(0.0, min(1.0, H / math.log(M)))
        ELSE IF ~ArgBelowBase(arg, base) /\ ~ArgIsBase(arg, base) THEN EntropyOne
        ELSE IF ArgIsBase(arg, base) /\ ulps >= 0 THEN EntropyOne
        ELSE IF arg = One /\ ulps <= 0 THEN EntropyZero
        ELSE [null |-> FALSE, arg |-> arg, base |-> base, ulps |-> ulps]

(***************************************************************************)
(* Calendar arithmetic of datetime.date (proleptic Gregorian calendar).    *)
(***************************************************************************)
IsLeap(y) == y % 4 = 0 /\ (y % 100 # 0 \/ y % 400 = 0)

DaysInMonth(y, m) ==
    IF m = 2 THEN (IF IsLeap(y) THEN 29 ELSE 28)
    ELSE IF m \in {4, 6, 9, 11} THEN 30 ELSE 31

RECURSIVE DaysBeforeMonth(_, _)
DaysBeforeMonth(y, m) ==
    IF m = 1 THEN 0 ELSE DaysBeforeMonth(y, m - 1) + DaysInMonth(y, m - 1)

DaysBeforeYear(y) ==
    (y - 1) * 365 + (y - 1) \div 4 - (y - 1) \div 100 + (y - 1) \div 400

toordinal(d) == DaysBeforeYear(d.year) + DaysBeforeMonth(d.year, d.month) + d.day

\* date.weekday(): Monday is 0
weekday(d) == (toordinal(d) + 6) % 7

NextDay(d) ==
    IF d.day < DaysInMonth(d.year, d.month) THEN Date(d.year, d.month, d.day + 1)
    ELSE IF d.month = 12 THEN Date(d.year + 1, 1, 1)
    ELSE Date(d.year, d.month + 1, 1)

PrevDay(d) ==
    IF d.day > 1 THEN Date(d.year, d.month, d.day - 1)
    ELSE IF d.month = 1 THEN Date(d.year - 1, 12, 31)
    ELSE Date(d.year, d.month - 1, DaysInMonth(d.year, d.month - 1))

\* d + timedelta(days=n), n of either sign
RECURSIVE AddDays(_, _)
AddDays(d, n) ==
    IF n = 0 THEN d
    ELSE IF n > 0 THEN AddDays(NextDay(d), n - 1)
    ELSE AddDays(PrevDay(d), n + 1)

\* a <= b on dates
DateLeq(a, b) ==
    \/ a.year < b.year
    \/ (a.year = b.year /\ a.month < b.month)
    \/ (a.year = b.year /\ a.month = b.month /\ a.day <= b.day)

(***************************************************************************)
(* Windowing of the rhythm tool.                                           *)
(***************************************************************************)
month_start(d) == Date(d.year, d.month, 1)

week_start_monday(d) == AddDays(d, 0 - weekday(d))

RECURSIVE week_loop(_, _)
week_loop(cur, end) ==
    IF DateLeq(cur, end) THEN <<cur>> \o week_loop(AddDays(cur, 7), end) ELSE << >>

RECURSIVE month_loop(_, _)
month_loop(cur, end) ==
    IF DateLeq(cur, end)
    THEN <<cur>> \o month_loop(IF cur.month = 12 THEN Date(cur.year + 1, 1, 1)
                               ELSE Date(cur.year, cur.month + 1, 1), end)
    ELSE << >>

\* variant: the loops stop before the window of until
build_windows_until_exclusive(since, until, granularity) ==
    LET g == Lower(granularity)
        all == IF g = "week"
               THEN week_loop(week_start_monday(since), week_start_monday(until))
               ELSE month_loop(month_start(since), month_start(until))
    IN  IF all = << >> THEN all ELSE SubSeq(all, 1, Len(all) - 1)

build_windows(since, until, granularity) ==
    LET g == Lower(granularity)
    IN  IF g = "week"
        THEN week_loop(week_start_monday(since), week_start_monday(until))
        ELSE month_loop(month_start(since), month_start(until))

window_id_for_date(d, granularity) ==
    LET g == Lower(granularity)
    IN  IF g = "week" THEN week_start_monday(d) ELSE month_start(d)

(***************************************************************************)
(* Real numbers with a square root: a + b * sqrt(q) for rationals a, b and *)
(* q >= 0, compared exactly.  A float that is None has a = None.           *)
(***************************************************************************)
RealOf(r) == [a |-> r, b |-> Zero, q |-> Zero]
RealNone == [a |-> None, b |-> Zero, q |-> Zero]
IsNoneReal(x) == IsNone(x.a)
RaisedReal(x) == Raised(x.a) \/ Raised(x.b) \/ Raised(x.q)

\* math.sqrt(r)
sqrt(r) == [a |-> Zero, b |-> One, q |-> r]

RatNeg(r) == Rat(0 - r.n, r.d)
RatSign(r) == IF r.n > 0 THEN 1 ELSE IF r.n < 0 THEN -1 ELSE 0

Sign(x) ==
    LET sa == RatSign(x.a)
        sb == IF x.q.n = 0 THEN 0 ELSE RatSign(x.b)
        a2 == RatMul(x.a, x.a)
        b2q == RatMul(RatMul(x.b, x.b), x.q)
    IN  IF sb = 0 THEN sa
        ELSE IF sa = 0 \/ sa = sb THEN sb
        ELSE IF a2 = b2q THEN 0
        ELSE IF RatLt(b2q, a2) THEN sa ELSE sb

RealNeg(x) == [a |-> RatNeg(x.a), b |-> RatNeg(x.b), q |-> x.q]
RealAddRat(x, r) == [x EXCEPT !.a = RatAdd(@, r)]
RealDivRat(x, r) == [a |-> RatDiv(x.a, r), b |-> RatDiv(x.b, r), q |-> x.q]
RealAbs(x) == IF Sign(x) < 0 THEN RealNeg(x) ELSE x
RealLeqRat(x, r) == Sign(RealAddRat(x, RatNeg(r))) <= 0
RealGeqRat(x, r) == Sign(RealAddRat(x, RatNeg(r))) >= 0
RealEqRat(x, r) == Sign(RealAddRat(x, RatNeg(r))) = 0

(***************************************************************************)
(* Statistics of the rhythm tool.                                          *)
(***************************************************************************)
\* variant: the mean without the test for an empty list
mean_unguarded(xs) == Rat(sum(xs), Len(xs))

mean(xs) == IF xs = << >> THEN Zero ELSE Rat(sum(xs), Len(xs))

\* sum((x - mu) ** 2 for x in xs)
RECURSIVE sum_sq_dev(_, _)
sum_sq_dev(xs, mu) ==
    IF xs = << >> THEN Zero
    ELSE LET dev == RatSub(Rat(Head(xs), 1), mu)
         IN  RatAdd(RatMul(dev, dev), sum_sq_dev(Tail(xs), mu))

\* variant: the population deviation, with n as denominator
stdev_population(xs) ==
    LET n == Len(xs)
    IN  IF n < 2 THEN RealOf(Zero)
        ELSE sqrt(RatDiv(sum_sq_dev(xs, mean(xs)), Rat(n, 1)))

stdev_sample(xs) ==
    LET n == Len(xs)
    IN  IF n < 2 THEN RealOf(Zero)
        ELSE LET mu == mean(xs)
                 var == RatDiv(sum_sq_dev(xs, mu), Rat(n - 1, 1))
             IN  sqrt(var)

\* variant: the score does not fall off above the target
calculate_phi_c_one_sided(cv) ==
    IF IsNoneReal(cv) THEN RealOf(Zero)
    ELSE IF RealGeqRat(cv, Zero) /\ RealLeqRat(cv, Rat(1, 2))
    THEN IF RealGeqRat(cv, Rat(1, 4)) THEN RealOf(One)
         ELSE RealDivRat(cv, Rat(1, 4))
    ELSE RealOf(Zero)

\* variant: the score falls from 1 at CV = 0 to 0 at CV = 0.5, so that it
\* ranks repositories as the stable label does
calculate_phi_c_decreasing(cv) ==
    IF IsNoneReal(cv) THEN RealOf(Zero)
    ELSE IF RealGeqRat(cv, Zero) /\ RealLeqRat(cv, Rat(1, 2))
    THEN RealAddRat(RealNeg(RealDivRat(cv, Rat(1, 2))), One)
    ELSE RealOf(Zero)

calculate_phi_c(cv) ==
    IF IsNoneReal(cv) THEN RealOf(Zero)
    ELSE LET target == Rat(1, 4)
             tolerance == Rat(1, 4)
         IN  IF RealGeqRat(cv, Zero) /\ RealLeqRat(cv, Rat(1, 2))
             THEN LET phi_c == RealAddRat(
                                  RealNeg(RealDivRat(RealAbs(RealAddRat(cv, RatNeg(target))),
                                                     tolerance)),
                                  One)
                  IN  IF Sign(phi_c) < 0 THEN RealOf(Zero) ELSE phi_c
             ELSE RealOf(Zero)

RhythmMetrics(granularity, window_count, health_file_commits, mu, sigma, cv, active_window_rate, phi_c, label) ==
    [ granularity |-> granularity, window_count |-> window_count,
      health_file_commits |-> health_file_commits, mu |-> mu, sigma |-> sigma,
      cv |-> cv, active_window_rate |-> active_window_rate, phi_c |-> phi_c,
      label |-> label ]

\* counts_by_window.get(w, 0)
GetCount(counts_by_window, w) ==
    IF w \in DOMAIN counts_by_window THEN counts_by_window[w] ELSE 0

\* variant: the sparse test is made before the inactive test
compute_metrics_sparse_first(counts_by_window, wins, cv_threshold, min_total, min_active, granularity) ==
    LET counts == [i \in 1..Len(wins) |-> GetCount(counts_by_window, wins[i])]
        total == sum(counts)
        nwin == Len(wins)
        mu == mean(counts)
        sigma == stdev_sample(counts)
        active == Len(SelectSeq(counts, LAMBDA c : c > 0))
        active_rate == IF nwin # 0 THEN Rat(active, nwin) ELSE Zero
        cv == IF RatLt(Zero, mu) THEN RealDivRat(sigma, mu) ELSE RealNone
        phi_c == calculate_phi_c(cv)
    IN  IF total < min_total \/ active < min_active
        THEN RhythmMetrics(granularity, nwin, total, mu, sigma, cv, active_rate, phi_c,
                           "sparse")
        ELSE IF mu = Zero
        THEN RhythmMetrics(granularity, nwin, 0, Zero, RealOf(Zero), RealNone, Zero,
                           RealOf(Zero), "inactive")
        ELSE RhythmMetrics(granularity, nwin, total, mu, sigma, cv, active_rate, phi_c,
                           IF ~IsNoneReal(cv) /\ RealLeqRat(cv, cv_threshold)
                           THEN "stable" ELSE "unstable")

compute_metrics(counts_by_window, wins, cv_threshold, min_total, min_active, granularity) ==
    LET counts == [i \in 1..Len(wins) |-> GetCount(counts_by_window, wins[i])]
        total == sum(counts)
        nwin == Len(wins)
        mu == mean(counts)
        sigma == stdev_sample(counts)
        active == Len(SelectSeq(counts, LAMBDA c : c > 0))
        active_rate == IF nwin # 0 THEN Rat(active, nwin) ELSE Zero
        cv == IF RatLt(Zero, mu) THEN RealDivRat(sigma, mu) ELSE RealNone
        phi_c == calculate_phi_c(cv)
    IN  IF mu = Zero
        THEN RhythmMetrics(granularity, nwin, 0, Zero, RealOf(Zero), RealNone, Zero,
                           RealOf(Zero), "inactive")
        ELSE IF total < min_total \/ active < min_active
        THEN RhythmMetrics(granularity, nwin, total, mu, sigma, cv, active_rate, phi_c,
                           "sparse")
        ELSE RhythmMetrics(granularity, nwin, total, mu, sigma, cv, active_rate, phi_c,
                           IF ~IsNoneReal(cv) /\ RealLeqRat(cv, cv_threshold)
                           THEN "stable" ELSE "unstable")

(***************************************************************************)
(* Idle values: each specification runs one part of the system and leaves  *)
(* the variables of the other parts alone.                                 *)
(***************************************************************************)
PathIdle == p_pc = "idle" /\ p_files = << >> /\ p_health = << >>

CommitIdle ==
    /\ c_pc = "idle" /\ c_files = << >> /\ c_threshold = [n |-> 1, d |-> 2]
    /\ c_int = << >> /\ c_own = << >>

IdIdle == id_pc = "idle" /\ id_raw = << >> /\ id_own = << >> /\ id_con = << >>

MainIdle ==
    /\ pc = "idle" /\ dominant_threshold = [n |-> 1, d |-> 2] /\ include_bots = FALSE
    /\ intention = IntentionStart /\ ownership = OwnershipStart
    /\ int_row = << >> /\ own_row = << >>

MetricIdle ==
    /\ m_pc = "idle" /\ m_counts = << >> /\ m_k = 0 /\ m_x = [n |-> 1, d |-> 2]
    /\ m_out = << >>

EntropyIdle ==
    /\ e_pc = "idle" /\ e_since = << >> /\ e_until = << >> /\ month_counts = << >>
    /\ e_total = 0 /\ e_health = 0 /\ e_out = << >>

WindowIdle ==
    /\ w_pc = "idle" /\ w_since = << >> /\ w_until = << >> /\ w_granularity = ""
    /\ windows = << >> /\ w_date = << >> /\ w_wid = << >>

RhythmIdle ==
    /\ r_pc = "idle" /\ r_args = << >> /\ health_dates = << >> /\ r_metrics = << >>

PhiIdle == phi_pc = "idle" /\ phi_in = << >> /\ phi_out = << >>

LogIdle ==
    /\ l_pc = "idle" /\ l_log = << >> /\ l_pos = 0 /\ l_parser = << >>
    /\ l_counts = << >>

RunIdle ==
    /\ x_pc = << >> /\ x_prefix = << >> /\ x_optional = FALSE /\ x_calls = << >>
    /\ fs = << >>

IoIdle == LogIdle /\ RunIdle

StatIdle == MetricIdle /\ EntropyIdle /\ WindowIdle /\ RhythmIdle /\ PhiIdle /\ IoIdle

CoreIdle == PathIdle /\ CommitIdle /\ IdIdle /\ MainIdle /\ IoIdle

coreVars == <<pathVars, commitVars, idVars, mainVars, ioVars>>

(***************************************************************************)
(* The tools run over one commit log: every commit the parser yields is    *)
(* handed to the loop body of the intention tool and of the ownership      *)
(* tool; when the log ends each tool writes its summary row.               *)
(***************************************************************************)
Init ==
    /\ pc = "loop"
    /\ dominant_threshold \in Thresholds
    /\ include_bots \in BOOLEAN
    /\ intention = IntentionStart
    /\ ownership = OwnershipStart
    /\ int_row = << >>
    /\ own_row = << >>
    /\ PathIdle /\ CommitIdle /\ IdIdle /\ StatIdle

ProcessCommit ==
    /\ pc = "loop"
    /\ intention.total_commits_in_range < MaxCommits
    /\ \E a \in LogAuthors, file_lines \in LogFileLists :
          LET cr == CommitRecord(a[1], a[2], file_lines)
          IN  /\ intention' = IntentionLoopBody(intention, cr, dominant_threshold)
              /\ ownership' = OwnershipLoopBody(ownership, cr, dominant_threshold, include_bots)
    /\ UNCHANGED <<pc, dominant_threshold, include_bots, int_row, own_row>>
    /\ UNCHANGED <<pathVars, commitVars, idVars, statVars>>

Finish ==
    /\ pc = "loop"
    /\ pc' = "done"
    /\ int_row' = IntentionRow(intention)
    /\ own_row' = OwnershipRow(ownership)
    /\ UNCHANGED <<dominant_threshold, include_bots, intention, ownership>>
    /\ UNCHANGED <<pathVars, commitVars, idVars, statVars>>

Next == ProcessCommit \/ Finish

Spec == Init /\ [][Next]_vars

(***************************************************************************)
(* The path classifier as a program: one call of get_health_files.         *)
(***************************************************************************)
PathInit ==
    /\ p_pc = "start"
    /\ p_files \in { <<p>> : p \in PathUniverse }
    /\ p_health = << >>
    /\ CommitIdle /\ IdIdle /\ MainIdle /\ StatIdle

GetHealthFiles ==
    /\ p_pc = "start"
    /\ p_health' = get_health_files(p_files)
    /\ p_pc' = "done"
    /\ UNCHANGED <<p_files, commitVars, idVars, mainVars, statVars>>

PathNext == GetHealthFiles

SpecPath == PathInit /\ [][PathNext]_vars

(***************************************************************************)
(* The commit classifier as a program: the loop bodies of the intention    *)
(* tool and of the ownership tool applied to the first commit of a log.    *)
(***************************************************************************)
CommitInit ==
    /\ c_pc = "start"
    /\ c_files \in CommitFileLists
    /\ c_threshold \in Thresholds
    /\ c_int = << >>
    /\ c_own = << >>
    /\ PathIdle /\ IdIdle /\ MainIdle /\ StatIdle

CommitAuthor == << "Alice", "alice@x.com" >>

ClassifyCommit ==
    /\ c_pc = "start"
    /\ LET cr == CommitRecord(CommitAuthor[1], CommitAuthor[2], c_files)
       IN  /\ c_int' = [ cls      |-> intention_classify(cr.files, c_threshold),
                         counters |-> IntentionLoopBody(IntentionStart, cr, c_threshold) ]
           /\ c_own' = [ cls      |-> ownership_classify(cr.files, c_threshold),
                         counters |-> OwnershipLoopBody(OwnershipStart, cr, c_threshold, FALSE) ]
    /\ c_pc' = "done"
    /\ UNCHANGED <<c_files, c_threshold, pathVars, idVars, mainVars, statVars>>

CommitNext == ClassifyCommit

SpecCommit == CommitInit /\ [][CommitNext]_vars

(***************************************************************************)
(* The identity resolvers as a program: the keys two commits are counted   *)
(* under in the ownership tool and in the concentration tool.              *)
(***************************************************************************)
IdInit ==
    /\ id_pc = "start"
    /\ id_raw \in { << [an |-> n1, ae |-> e1], [an |-> n2, ae |-> e2] >> :
                       n1 \in RawNames, e1 \in RawEmails, n2 \in RawNames, e2 \in RawEmails }
    /\ id_own = << >>
    /\ id_con = << >>
    /\ PathIdle /\ CommitIdle /\ MainIdle /\ StatIdle

ResolveIdentities ==
    /\ id_pc = "start"
    /\ id_own' = [ i \in 1..2 |->
                     LET cr == CommitRecord(id_raw[i].an, id_raw[i].ae, << >>)
                     IN  author_id(cr.author_name, cr.author_email) ]
    /\ id_con' = [ i \in 1..2 |->
                     LET cr == CommitRecord(id_raw[i].an, id_raw[i].ae, << >>)
                     IN  contributor_id(cr.author_name, cr.author_email) ]
    /\ id_pc' = "done"
    /\ UNCHANGED <<id_raw, pathVars, commitVars, mainVars, statVars>>

IdNext == ResolveIdentities

SpecId == IdInit /\ [][IdNext]_vars

(***************************************************************************)
(* The concentration metrics as a program: the Top-K share, the Gini       *)
(* coefficient and the bus factor each tool computes from one list of      *)
(* counts (commits per contributor, or commits per month).                 *)
(***************************************************************************)
RECURSIVE SeqsOfLen(_, _)
SeqsOfLen(S, n) ==
    IF n = 0 THEN { << >> }
    ELSE { <<x>> \o q : x \in S, q \in SeqsOfLen(S, n - 1) }

ExampleCounts == { <<50, 30, 20>>, <<20, 50, 30>>, <<0, 0, 0, 100>>, <<100>> }

CountLists ==
    UNION { SeqsOfLen(0..MaxCount, n) : n \in 0..MaxLen } \cup ExampleCounts

Ks == 0..(MaxLen + 2)

Fractions == { Rat(1, 10), Rat(1, 3), Rat(1, 2), Rat(4, 5), Rat(1, 1) }

MetricInit ==
    /\ m_pc = "start"
    /\ m_counts \in CountLists
    /\ m_k \in Ks
    /\ m_x \in Fractions
    /\ m_out = << >>
    /\ CoreIdle /\ EntropyIdle /\ WindowIdle /\ RhythmIdle /\ PhiIdle

\* rate(num, den) of the intention summary: the quotient rounded to six
\* decimals, or the empty string (here None) when den is not positive.  A
\* quotient halfway between two six-decimal numbers needs den to be a
\* multiple of 128, beyond the sums of the count lists used here.
rate(num, den) ==
    IF den > 0 THEN Rat((2 * num * 1000000 + den) \div (2 * den), 1000000) ELSE None

\* the three rate columns of a summary whose sub-category counts are counts
rate_columns(counts) == [i \in 1..Len(counts) |-> rate(counts[i], sum(counts))]

\* the counts taken as the counts of consecutive windows
as_windows(counts) == [i \in 1..Len(counts) |-> i]

\* human_counts.items(): the pairs (contributor, count)
items(counts) == [i \in 1..Len(counts) |-> <<i, counts[i]>>]

ComputeMetrics ==
    /\ m_pc = "start"
    /\ m_out' =
          [ own_top_k      |-> top_k_share(m_counts, m_k),
            own_top_k1     |-> top_k_share(m_counts, m_k + 1),
            own_bus_x      |-> bus_x(m_counts, m_x),
            con_top_k      |-> topk_share(human_desc(items(m_counts)), m_k),
            con_top_k1     |-> topk_share(human_desc(items(m_counts)), m_k + 1),
            con_gini       |-> gini([i \in 1..Len(m_counts) |->
                                       human_desc(items(m_counts))[i][2]]),
            month_top_k    |-> month_top_k_share(m_counts, m_k),
            month_top_k1   |-> month_top_k_share(m_counts, m_k + 1),
            month_gini     |-> gini_from_counts(m_counts),
            mean           |-> mean(m_counts),
            stdev          |-> stdev_sample(m_counts),
            rhythm         |-> compute_metrics(m_counts, as_windows(m_counts),
                                               Rat(1, 2), 5, 3, "month"),
            rates          |-> rate_columns(m_counts) ]
    /\ m_pc' = "done"
    /\ UNCHANGED <<m_counts, m_k, m_x, coreVars, entropyVars, windowVars, rhythmVars, phiVars>>

MetricNext == ComputeMetrics

SpecMetrics == MetricInit /\ [][MetricNext]_vars

(***************************************************************************)
(* The entropy tool: the monthly skeleton over [since, until], the loop    *)
(* that counts the health-doc commits of each month, and the summary.      *)
(***************************************************************************)
EntropyDates ==
    { Date(2023, 11, 15), Date(2023, 12, 31), Date(2024, 1, 1), Date(2024, 2, 29) }

\* (year, month) of the commit dates the log can hold
CommitMonths == { MonthKey(2023, 11), MonthKey(2023, 12), MonthKey(2024, 1), MonthKey(2024, 2) }

EntropyFileLists == { <<"README.md">>, <<"src/app.py">>, <<"README.md", "src/app.py">> }

months == iter_month_keys(e_since, e_until)

EntropyInit ==
    /\ e_pc = "loop"
    /\ e_since \in EntropyDates
    /\ e_until \in EntropyDates
    /\ month_counts = [mk \in { months[i] : i \in DOMAIN months } |-> 0]
    /\ e_total = 0
    /\ e_health = 0
    /\ e_out = << >>
    /\ CoreIdle /\ MetricIdle /\ WindowIdle /\ RhythmIdle /\ PhiIdle

EntropyCommit ==
    /\ e_pc = "loop"
    /\ e_total < MaxMonthCommits
    /\ \E files \in EntropyFileLists, mk \in CommitMonths :
          LET health_files == get_health_files(files)
          IN  /\ e_total' = e_total + 1
              /\ IF health_files = << >>
                 THEN UNCHANGED <<e_health, month_counts>>
                 ELSE /\ e_health' = e_health + 1
                      /\ month_counts' =
                           IF mk \in DOMAIN month_counts
                           THEN [month_counts EXCEPT ![mk] = @ + 1]
                           ELSE month_counts
    /\ UNCHANGED <<e_pc, e_since, e_until, e_out, coreVars, metricVars, windowVars, rhythmVars, phiVars>>

counts_list == [i \in 1..Len(months) |-> month_counts[months[i]]]

EntropySummary ==
    /\ e_pc = "loop"
    /\ \E drift \in {-1, 0, 1} :
          e_out' = [ months           |-> Len(months),
                     total_commits_in_range |-> e_total,
                     health_file_commits    |-> e_health,
                     active_months    |-> Len(SelectSeq(counts_list, LAMBDA c : c > 0)),
                     entropy_norm     |-> entropy_norm(counts_list, drift),
                     top1_month_share |-> month_top_k_share(counts_list, 1),
                     top3_month_share |-> month_top_k_share(counts_list, 3),
                     top6_month_share |-> month_top_k_share(counts_list, 6),
                     gini_month_concentration |-> gini_from_counts(counts_list) ]
    /\ e_pc' = "done"
    /\ UNCHANGED <<e_since, e_until, month_counts, e_total, e_health, coreVars, metricVars, windowVars, rhythmVars, phiVars>>

EntropyNext == EntropyCommit \/ EntropySummary

SpecEntropy == EntropyInit /\ [][EntropyNext]_vars

(***************************************************************************)
(* The windowing of the rhythm tool as a program: the windows built for    *)
(* [since, until] at one granularity, and the window ids the commit dates  *)
(* are counted under.                                                      *)
(***************************************************************************)
DatesFrom(d, n) == { AddDays(d, i) : i \in 0..n }

\* two stretches of dates: across a year end, and across the end of a
\* leap-year February
WindowDates ==
    DatesFrom(Date(2023, 12, 22), MaxSpanDays) \cup DatesFrom(Date(2024, 2, 24), MaxSpanDays)

Granularities == { "week", "month" }

WindowInit ==
    /\ w_pc = "start"
    /\ w_since \in WindowDates
    /\ w_until \in WindowDates
    /\ w_granularity \in Granularities
    /\ windows = << >>
    /\ w_date = << >>
    /\ w_wid = << >>
    /\ CoreIdle /\ MetricIdle /\ EntropyIdle /\ RhythmIdle /\ PhiIdle

BuildWindows ==
    /\ w_pc = "start"
    /\ windows' = build_windows(w_since, w_until, w_granularity)
    /\ w_pc' = "built"
    /\ UNCHANGED <<w_since, w_until, w_granularity, w_date, w_wid>>
    /\ UNCHANGED <<coreVars, metricVars, entropyVars, rhythmVars, phiVars>>

WindowIdForDate ==
    /\ w_pc = "built"
    /\ w_date = << >>
    /\ \E d \in WindowDates :
          /\ w_date' = d
          /\ w_wid' = window_id_for_date(d, w_granularity)
    /\ UNCHANGED <<w_pc, w_since, w_until, w_granularity, windows>>
    /\ UNCHANGED <<coreVars, metricVars, entropyVars, rhythmVars, phiVars>>

WindowNext == BuildWindows \/ WindowIdForDate

SpecWindows == WindowInit /\ [][WindowNext]_vars

(***************************************************************************)
(* The rhythm tool: the loop that collects the dates of the health-doc     *)
(* commits, then, for one granularity, the windows, the per-window counts  *)
(* and the metrics.                                                        *)
(***************************************************************************)
RhythmDates == { Date(2023, 12, 22), Date(2024, 1, 1), Date(2024, 3, 6) }

HealthCommitDates ==
    { Date(2023, 12, 22), Date(2023, 12, 31), Date(2024, 1, 1), Date(2024, 1, 2),
      Date(2024, 2, 29), Date(2024, 3, 6) }

\* git keeps the commits whose committer time lies between --since 00:00:00
\* and --until 23:59:59, both taken in the local time zone, while the tool
\* takes the date of the commit in UTC: that date lies between the day
\* before since and the day after until.
in_log_range(d, since, until) == DateLeq(PrevDay(since), d) /\ DateLeq(d, NextDay(until))

\* --cv_threshold, --min_total_commits, --min_active_windows: the defaults,
\* and two more lenient settings
LabelThresholds ==
    { [cv_threshold |-> Rat(1, 2), min_total_commits |-> 5, min_active_windows |-> 3],
      [cv_threshold |-> Rat(1, 2), min_total_commits |-> 2, min_active_windows |-> 2],
      [cv_threshold |-> Rat(1, 1), min_total_commits |-> 2, min_active_windows |-> 1] }

RhythmArgs ==
    { [since |-> s, until |-> u, granularity |-> g, cv_threshold |-> t.cv_threshold,
       min_total_commits |-> t.min_total_commits,
       min_active_windows |-> t.min_active_windows] :
         s \in RhythmDates, u \in RhythmDates, g \in Granularities, t \in LabelThresholds }

RECURSIVE SumCounts(_, _)
SumCounts(f, D) ==
    IF D = {} THEN 0
    ELSE LET d == CHOOSE x \in D : TRUE IN f[d] + SumCounts(f, D \ {d})

\* for d in health_dates: counts_by_window[window_id_for_date(d, g)] += 1
counts_by_window(dates, g) ==
    [ w \in { window_id_for_date(d, g) : d \in DOMAIN dates } |->
        SumCounts(dates, { d \in DOMAIN dates : window_id_for_date(d, g) = w }) ]

RhythmInit ==
    /\ r_pc = "loop"
    /\ r_args \in RhythmArgs
    /\ health_dates = << >>
    /\ r_metrics = << >>
    /\ CoreIdle /\ MetricIdle /\ EntropyIdle /\ WindowIdle /\ PhiIdle

RhythmCommit ==
    /\ r_pc = "loop"
    /\ SumCounts(health_dates, DOMAIN health_dates) < MaxHealthCommits
    /\ \E files \in EntropyFileLists, d \in HealthCommitDates :
          /\ in_log_range(d, r_args.since, r_args.until)
          /\ health_dates' =
                IF get_health_files(files) = << >> THEN health_dates
                ELSE IF d \in DOMAIN health_dates
                THEN [health_dates EXCEPT ![d] = @ + 1]
                ELSE health_dates @@ (d :> 1)
    /\ UNCHANGED <<r_pc, r_args, r_metrics>>
    /\ UNCHANGED <<coreVars, metricVars, entropyVars, windowVars, phiVars>>

RhythmWindows == build_windows(r_args.since, r_args.until, r_args.granularity)

ComputeRhythm ==
    /\ r_pc = "loop"
    /\ r_metrics' = compute_metrics(counts_by_window(health_dates, r_args.granularity),
                                    RhythmWindows, r_args.cv_threshold,
                                    r_args.min_total_commits, r_args.min_active_windows,
                                    r_args.granularity)
    /\ r_pc' = "done"
    /\ UNCHANGED <<r_args, health_dates>>
    /\ UNCHANGED <<coreVars, metricVars, entropyVars, windowVars, phiVars>>

RhythmNext == RhythmCommit \/ ComputeRhythm

SpecRhythm == RhythmInit /\ [][RhythmNext]_vars

(***************************************************************************)
(* The stability score as a program: the coefficient of variation and      *)
(* phi_c that compute_metrics derives from a deviation and a mean.         *)
(***************************************************************************)
SigmaInputs ==
    { RealOf(Rat(i, 16)) : i \in 0..MaxCvNum } \cup { sqrt(Rat(i, 64)) : i \in 0..MaxCvNum }

MuInputs == { Zero, Rat(1, 2), One, Rat(2, 1) }

PhiInit ==
    /\ phi_pc = "start"
    /\ phi_in \in { [sigma |-> sg, mu |-> mu] : sg \in SigmaInputs, mu \in MuInputs }
    /\ phi_out = << >>
    /\ CoreIdle /\ MetricIdle /\ EntropyIdle /\ WindowIdle /\ RhythmIdle

ComputePhi ==
    /\ phi_pc = "start"
    /\ phi_out' =
          IF phi_in.mu = Zero
          THEN [cv |-> RealNone, phi_c |-> RealOf(Zero)]
          ELSE LET cv == IF RatLt(Zero, phi_in.mu) THEN RealDivRat(phi_in.sigma, phi_in.mu)
                         ELSE RealNone
               IN  [cv |-> cv, phi_c |-> calculate_phi_c(cv)]
    /\ phi_pc' = "done"
    /\ UNCHANGED <<phi_in, coreVars, metricVars, entropyVars, windowVars, rhythmVars>>

PhiNext == ComputePhi

SpecPhi == PhiInit /\ [][PhiNext]_vars

(***************************************************************************)
(* The log parsers of the five tools read the same commits, each in the    *)
(* format its tool asks git for; at the end of the log every tool counts   *)
(* its health-doc-touch commits.                                           *)
(***************************************************************************)
Logs == SeqsUpTo(LogCommits, MaxLogCommits)

LogInit ==
    /\ l_pc = "parse"
    /\ l_log \in Logs
    /\ l_pos = 0
    /\ l_parser = [t \in LogTools |-> ParserStart]
    /\ l_counts = << >>
    /\ PathIdle /\ CommitIdle /\ IdIdle /\ MainIdle
    /\ MetricIdle /\ EntropyIdle /\ WindowIdle /\ RhythmIdle /\ PhiIdle /\ RunIdle

ParseCommit ==
    /\ l_pc = "parse"
    /\ l_pos < Len(l_log)
    /\ l_pos' = l_pos + 1
    /\ l_parser' = [t \in LogTools |->
                      parse_lines(t, l_parser[t],
                                  git_log(t, ShaOf(l_pos + 1), l_log[l_pos + 1]))]
    /\ UNCHANGED <<l_pc, l_log, l_counts, runVars>>
    /\ UNCHANGED <<pathVars, commitVars, idVars, mainVars>>
    /\ UNCHANGED <<metricVars, entropyVars, windowVars, rhythmVars, phiVars>>

EndOfLog ==
    /\ l_pc = "parse"
    /\ l_pos = Len(l_log)
    /\ l_parser' = [t \in LogTools |-> end_of_log(t, l_parser[t])]
    /\ l_counts' = touch_counts(l_parser')
    /\ l_pc' = "done"
    /\ UNCHANGED <<l_log, l_pos, runVars>>
    /\ UNCHANGED <<pathVars, commitVars, idVars, mainVars>>
    /\ UNCHANGED <<metricVars, entropyVars, windowVars, rhythmVars, phiVars>>

LogNext == ParseCommit \/ EndOfLog

SpecLog == LogInit /\ [][LogNext]_vars

(***************************************************************************)
(* The four engines run for the same repository, in any interleaving.      *)
(***************************************************************************)
\* the exit statuses git can end with: success, or "fatal: ..."
ReturnCodes == { 0, 128 }

\* the number of output files engine e has written
written(e) ==
    Cardinality({ q \in DOMAIN fs : \E i \in 1..Len(fs[q]) : fs[q][i] = e })

RunInit ==
    /\ x_pc = [e \in Engines |-> "start"]
    /\ x_prefix \in { [e \in Engines |-> default_prefix(e)], [e \in Engines |-> "study"] }
    /\ x_optional \in BOOLEAN
    /\ x_calls = [e \in Engines |-> << >>]
    /\ fs = << >>
    /\ PathIdle /\ CommitIdle /\ IdIdle /\ MainIdle
    /\ MetricIdle /\ EntropyIdle /\ WindowIdle /\ RhythmIdle /\ PhiIdle /\ LogIdle

\* raw = run_git(repo, log_args), reached from main() through the first
\* step of the loop over iter_commits_with_files
RunGit(e) ==
    /\ x_pc[e] = "start"
    /\ \E returncode \in ReturnCodes :
          /\ x_calls' = [x_calls EXCEPT ![e] = Append(@, returncode)]
          /\ x_pc' = [x_pc EXCEPT ![e] =
                        IF run_git(returncode) = "CalledProcessError" THEN "aborted"
                        ELSE "loop"]
    /\ UNCHANGED <<x_prefix, x_optional, fs, logVars>>
    /\ UNCHANGED <<pathVars, commitVars, idVars, mainVars>>
    /\ UNCHANGED <<metricVars, entropyVars, windowVars, rhythmVars, phiVars>>

\* the loop over the commits runs to the end of the log
ConsumeLog(e) ==
    /\ x_pc[e] = "loop"
    /\ x_pc' = [x_pc EXCEPT ![e] = "write"]
    /\ UNCHANGED <<x_prefix, x_optional, x_calls, fs, logVars>>
    /\ UNCHANGED <<pathVars, commitVars, idVars, mainVars>>
    /\ UNCHANGED <<metricVars, entropyVars, windowVars, rhythmVars, phiVars>>

\* the next "with open(path, 'w')" block of the engine
WriteOutput(e) ==
    /\ x_pc[e] = "write"
    /\ LET paths == output_paths(e, x_prefix[e], x_optional)
           i == written(e) + 1
       IN  /\ fs' = open_w(fs, paths[i], e)
           /\ x_pc' = [x_pc EXCEPT ![e] = IF i = Len(paths) THEN "done" ELSE "write"]
    /\ UNCHANGED <<x_prefix, x_optional, x_calls, logVars>>
    /\ UNCHANGED <<pathVars, commitVars, idVars, mainVars>>
    /\ UNCHANGED <<metricVars, entropyVars, windowVars, rhythmVars, phiVars>>

RunNext == \E e \in Engines : RunGit(e) \/ ConsumeLog(e) \/ WriteOutput(e)

SpecRun == RunInit /\ [][RunNext]_vars

(***************************************************************************)
(* Properties.                                                             *)
(***************************************************************************)

\* ---- helpers of the properties -------------------------------------------
\* the elements of a sequence
Range(q) == { q[i] : i \in DOMAIN q }

\* how many files of a commit are health docs / other work / excluded noise
HealthCount(files) ==
    Cardinality({ i \in DOMAIN files : ~is_excluded(files[i]) /\ is_health_file(files[i]) })

OtherCount(files) ==
    Cardinality({ i \in DOMAIN files : ~is_excluded(files[i]) /\ ~is_health_file(files[i]) })

ExcludedCount(files) ==
    Cardinality({ i \in DOMAIN files : is_excluded(files[i]) })

\* a path lies at the root, or directly inside .github/ or .gitlab/
NoSeparator(p) == \A i \in 1..Len(p) : Char(p, i) # "/"

RootOrScoped(path) ==
    LET p == Lower(ReplaceBackslash(path))
    IN  \/ NoSeparator(p)
        \/ StartsWith(p, ".github/") /\ NoSeparator(SubSeq(p, 9, Len(p)))
        \/ StartsWith(p, ".gitlab/") /\ NoSeparator(SubSeq(p, 9, Len(p)))

\* rename syntax "a => b": the path that is kept is b, trimmed of braces and spaces
IsRename(path) == Contains(path, "=>")

RECURSIVE TrimWrapping(_)
TrimWrapping(s) ==
    IF s # "" /\ Char(s, 1) \in { " ", "{", "}" } THEN TrimWrapping(SubSeq(s, 2, Len(s)))
    ELSE IF s # "" /\ Char(s, Len(s)) \in { " ", "{", "}" }
         THEN TrimWrapping(SubSeq(s, 1, Len(s) - 1))
    ELSE s

RenameTarget(path) ==
    LET i == CHOOSE k \in 1..(Len(path) - 1) :
                 /\ SubSeq(path, k, k + 1) = "=>"
                 /\ \A h \in (k + 1)..(Len(path) - 1) : SubSeq(path, h, h + 1) # "=>"
    IN  TrimWrapping(SubSeq(path, i + 2, Len(path)))

\* e-mail equivalence of the data model: trimmed, case-folded, and a
\* numeric-prefixed no-reply address digits+local@users.noreply.<host>
\* collapsed to local@users.noreply.<host>, for any host
EquivalentEmailKey(email) ==
    LET e == Lower(Strip(email))
        hits == { i \in 2..Len(e) :
                    /\ Char(e, i) = "+"
                    /\ \A h \in 1..(i - 1) : IsDigit(Char(e, h))
                    /\ \E k \in (i + 2)..(Len(e) - 15) :
                          SubSeq(e, k, k + 14) = "@users.noreply." }
    IN  IF hits = {} THEN e
        ELSE SubSeq(e, (CHOOSE i \in hits : TRUE) + 1, Len(e))

\* ---- C1 ------------------------------------------------------------------
\* C1: partition invariant.  After any prefix of the log, in the intention
\* tool and in the ownership tool, only + dominant + non-dominant equals the
\* number of commits that touch a health doc; at the end partition_check_sum
\* equals health_docs_touch_commits and health_docs_partition_check is True.
PartitionInvariant ==
    /\ intention.health_docs_only_commits
         + intention.health_docs_dominant_mixed_commits
         + intention.health_docs_mixed_non_dominant_commits
       = intention.health_docs_touch_commits
    /\ SumValues(ownership.counts_only_all)
         + SumValues(ownership.counts_dom_all)
         + SumValues(ownership.counts_nondom_all)
       = SumValues(ownership.counts_touch_all)
    /\ pc = "done" =>
         /\ int_row.partition_check_sum = int_row.health_docs_touch_commits
         /\ own_row.health_docs_partition_check = TRUE
         /\ own_row.health_docs_partition_sum_parts = own_row.health_docs_touch.commits

PartitionWitness ==
    /\ pc = "done"
    /\ int_row.health_docs_only_commits = 1
    /\ int_row.health_docs_dominant_mixed_commits = 1
    /\ int_row.health_docs_mixed_non_dominant_commits = 1
    /\ own_row.health_docs_partition_touch = 3

\* ---- C2 ------------------------------------------------------------------
\* C2: exclusion authority.  A path that matches an include pattern and an
\* exclude pattern is never returned by get_health_files.
ExclusionAuthority ==
    p_pc = "done" =>
       \A i \in DOMAIN p_files :
          (is_health_file(p_files[i]) /\ is_excluded(p_files[i]))
             => p_files[i] \notin Range(p_health)

ExclusionWitness ==
    /\ p_pc = "done"
    /\ p_files = << "README.py" >>
    /\ is_health_file(p_files[1]) /\ is_excluded(p_files[1])
    /\ p_health = << >>

\* ---- C3 ------------------------------------------------------------------
\* C3: every path classified as a health doc is a root-level file or a file
\* directly inside .github/ or .gitlab/.  (Stated for plain paths; paths in
\* rename syntax are the subject of C10.)
HealthDocsAreRootOrScoped ==
    p_pc = "done" =>
       \A i \in DOMAIN p_health :
          ~IsRename(p_health[i]) => RootOrScoped(p_health[i])

\* ---- C4 ------------------------------------------------------------------
\* C4: excluded paths are invisible to the commit classification.  Each
\* changed path counts as health, as other or (excluded) as neither; with no
\* health file the commit is NO_TOUCH and only total_commits_in_range moves;
\* with a health file and no other file it is DOC_ONLY, excluded paths or not.
ExcludedPathsInvisible ==
    c_pc = "done" =>
       LET h == HealthCount(c_files)
           o == OtherCount(c_files)
       IN  /\ h + o + ExcludedCount(c_files) = Len(c_files)
           /\ h = 0 =>
                /\ c_int.cls.category = "no_touch"
                /\ c_own.cls.category = "no_touch"
                /\ c_int.counters = [ IntentionStart EXCEPT !.total_commits_in_range = 1 ]
                /\ c_own.counters = [ OwnershipStart EXCEPT !.total_commits_in_range = 1 ]
           /\ h >= 1 =>
                /\ Len(c_int.cls.health_files) = h /\ Len(c_int.cls.other_files) = o
                /\ c_own.cls.n_health = h /\ c_own.cls.n_other = o
                /\ c_int.counters.health_docs_touch_commits = 1
                /\ SumValues(c_own.counters.counts_touch_all) = 1
           /\ (h >= 1 /\ o = 0) =>
                /\ c_int.cls.category = "health_docs_only"
                /\ c_own.cls.category = "only"
                /\ c_int.counters.health_docs_only_commits = 1
                /\ SumValues(c_own.counters.counts_only_all) = 1
           /\ (h >= 1 /\ o >= 1) =>
                /\ c_int.cls.category
                     \in { "health_docs_dominant_mixed", "health_docs_mixed_non_dominant" }
                /\ c_own.cls.category \in { "dom", "nondom" }

ExcludedPathsWitness ==
    /\ c_pc = "done"
    /\ c_files = << "README.md", "src/app.py" >>
    /\ ExcludedCount(c_files) = 1
    /\ c_int.cls.category = "health_docs_only"
    /\ c_own.cls.category = "only"

\* ---- C5 ------------------------------------------------------------------
\* C5: a commit with h >= 1 health files and o >= 1 other files is
\* DOC_DOMINANT exactly when h/(h+o) >= threshold, else DOC_NON_DOMINANT; a
\* share equal to the threshold is DOMINANT.
DominanceRule ==
    c_pc = "done" =>
       LET h == HealthCount(c_files)
           o == OtherCount(c_files)
           dominant == h * c_threshold.d >= c_threshold.n * (h + o)
       IN  (h >= 1 /\ o >= 1) =>
              /\ c_int.cls.category =
                   IF dominant THEN "health_docs_dominant_mixed"
                               ELSE "health_docs_mixed_non_dominant"
              /\ c_own.cls.category = IF dominant THEN "dom" ELSE "nondom"

DominanceTieWitness ==
    /\ c_pc = "done"
    /\ c_threshold = [n |-> 1, d |-> 2]
    /\ HealthCount(c_files) = 1 /\ OtherCount(c_files) = 1
    /\ c_int.cls.category = "health_docs_dominant_mixed"
    /\ c_own.cls.category = "dom"

\* ---- C6 ------------------------------------------------------------------
\* C6: monotonic dominance.  For the same commit, DOC_DOMINANT at a threshold
\* stays DOC_DOMINANT at every lower threshold, DOC_NON_DOMINANT stays so at
\* every higher one, and DOC_ONLY / NO_TOUCH do not depend on the threshold.
MonotonicDominance ==
    c_pc = "done" =>
       \A t \in Thresholds :
          LET int_t == intention_classify(c_files, t).category
              own_t == ownership_classify(c_files, t).category
          IN  /\ (c_int.cls.category = "health_docs_only") = (int_t = "health_docs_only")
              /\ (c_own.cls.category = "only") = (own_t = "only")
              /\ (c_int.cls.category = "no_touch") = (int_t = "no_touch")
              /\ (c_own.cls.category = "no_touch") = (own_t = "no_touch")
              /\ ThresholdLeq(t, c_threshold) =>
                    /\ c_int.cls.category = "health_docs_dominant_mixed"
                          => int_t = "health_docs_dominant_mixed"
                    /\ c_own.cls.category = "dom" => own_t = "dom"
              /\ ThresholdLeq(c_threshold, t) =>
                    /\ c_int.cls.category = "health_docs_mixed_non_dominant"
                          => int_t = "health_docs_mixed_non_dominant"
                    /\ c_own.cls.category = "nondom" => own_t = "nondom"

MonotonicDominanceWitness ==
    /\ c_pc = "done"
    /\ c_int.cls.category = "health_docs_mixed_non_dominant"
    /\ c_own.cls.category = "nondom"
    /\ \E t \in Thresholds :
          /\ ThresholdLeq(t, c_threshold)
          /\ intention_classify(c_files, t).category = "health_docs_dominant_mixed"
          /\ ownership_classify(c_files, t).category = "dom"

EquivalentEmailsSameIdentity ==
    id_pc = "done" =>
       ( ( /\ EquivalentEmailKey(id_raw[1].ae) # ""
           /\ EquivalentEmailKey(id_raw[1].ae) = EquivalentEmailKey(id_raw[2].ae) )
         => (id_own[1] = id_own[2] /\ id_con[1] = id_con[2]) )

\* ---- C9 ------------------------------------------------------------------
\* C9: an identity derived from an empty e-mail (the name fallback) is never
\* equal to an identity derived from a non-empty e-mail.
EmptyEmailIdentityIsDistinct ==
    id_pc = "done" =>
       ( (Strip(id_raw[1].ae) = "" /\ Strip(id_raw[2].ae) # "")
         => (id_own[1] # id_own[2] /\ id_con[1] # id_con[2]) )

\* ---- C10 -----------------------------------------------------------------
\* C10: a path in rename syntax "a => b" is classified as the path b alone.
RenameClassifiedAsTarget ==
    p_pc = "done" =>
       \A i \in DOMAIN p_files :
          IsRename(p_files[i]) =>
             LET b == RenameTarget(p_files[i])
             IN  /\ (p_health # << >>) = (get_health_files(<< b >>) # << >>)
                 /\ is_excluded(p_files[i]) = is_excluded(b)
                 /\ is_health_file(p_files[i]) = is_health_file(b)

(***************************************************************************)
(* Concentration metrics: what the Top-K share, the Gini coefficient and   *)
(* the bus factor are required to be, written without sorting.             *)
(***************************************************************************)
InUnit(v) == ~IsNone(v) /\ RatLeq(Zero, v) /\ RatLeq(v, One)

SumOver(counts, I) == sum(SelectSeq([i \in 1..Len(counts) |->
                                        IF i \in I THEN counts[i] ELSE 0],
                                    LAMBDA c : TRUE))

\* the largest sum any min(k, len) entries of the list have
KLargestSum(counts, k) ==
    LET m == IF k < Len(counts) THEN k ELSE Len(counts)
        sums == { SumOver(counts, I) :
                    I \in { J \in SUBSET (1..Len(counts)) : Cardinality(J) = m } }
    IN  CHOOSE v \in sums : \A u \in sums : u <= v

TopKShareRequired(counts, k) ==
    IF sum(counts) = 0 THEN Zero ELSE Rat(KLargestSum(counts, k), sum(counts))

\* position of entry i when the list is put in ascending order
AscendingRank(counts, i) ==
    Cardinality({ j \in 1..Len(counts) :
                    counts[j] < counts[i] \/ (counts[j] = counts[i] /\ j <= i) })

GiniRequired(counts) ==
    LET n == Len(counts)
        T == sum(counts)
        w == sum([i \in 1..n |-> AscendingRank(counts, i) * counts[i]])
    IN  IF n < 2 \/ T = 0 THEN Zero
        ELSE RatMax(Zero, RatMin(One, RatSub(Rat(2 * w, n * T), Rat(n + 1, n))))

AllEqual(counts) == \A i, j \in 1..Len(counts) : counts[i] = counts[j]

\* C11: for a non-empty count list with non-zero total, the Top-K share of
\* every tool does not decrease from k to k+1, lies in [0,1], and is 1 for
\* every k >= len(counts).
TopKMonotonicity ==
    (m_pc = "done" /\ m_counts # << >> /\ sum(m_counts) # 0) =>
       /\ InUnit(m_out.own_top_k) /\ InUnit(m_out.own_top_k1)
       /\ InUnit(m_out.con_top_k) /\ InUnit(m_out.con_top_k1)
       /\ InUnit(m_out.month_top_k) /\ InUnit(m_out.month_top_k1)
       /\ RatLeq(m_out.own_top_k, m_out.own_top_k1)
       /\ RatLeq(m_out.con_top_k, m_out.con_top_k1)
       /\ RatLeq(m_out.month_top_k, m_out.month_top_k1)
       /\ (m_k >= Len(m_counts) =>
             /\ m_out.own_top_k = One
             /\ m_out.con_top_k = One
             /\ m_out.month_top_k = One)

\* a list whose share grows strictly from k = 1 to k = 2 and is 1 from k = 3
TopKMonotonicityWitness ==
    /\ m_pc = "done" /\ m_counts = <<20, 50, 30>> /\ m_k = 1
    /\ m_out.own_top_k = Rat(1, 2) /\ m_out.own_top_k1 = Rat(4, 5)
    /\ m_out.month_top_k = Rat(1, 2) /\ m_out.con_top_k1 = Rat(4, 5)
    /\ top_k_share(m_counts, 3) = One

\* C12: in every tool the Top-K share is the sum of the k largest counts
\* divided by the total, whatever the order of the counts, and 0 when the
\* total is 0.
TopKShareDefinition ==
    m_pc = "done" =>
       /\ m_out.own_top_k = TopKShareRequired(m_counts, m_k)
       /\ m_out.con_top_k = TopKShareRequired(m_counts, m_k)
       /\ m_out.month_top_k = TopKShareRequired(m_counts, m_k)

\* C13: for any list of non-negative counts the Gini coefficient of the
\* contributor engine and of the month engine lies in [0,1], and is 0 when
\* all counts are equal.
GiniBounds ==
    m_pc = "done" =>
       /\ InUnit(m_out.con_gini)
       /\ InUnit(m_out.month_gini)
       /\ (AllEqual(m_counts) =>
             m_out.con_gini = Zero /\ m_out.month_gini = Zero)

\* C14: Gini is (2 * sum of i*x_i over the ascending counts)/(n*T) - (n+1)/n
\* clamped to [0,1], and 0 when n < 2 or T = 0; the contributor engine and
\* the month engine return the same value for the same list.
GiniDefinition ==
    m_pc = "done" =>
       /\ m_out.con_gini = GiniRequired(m_counts)
       /\ m_out.month_gini = GiniRequired(m_counts)
       /\ m_out.month_gini = m_out.con_gini

EntIsZero(v) == ~v.null /\ v.arg = One /\ v.ulps = 0

EntIsOne(v) == ~v.null /\ ArgIsBase(v.arg, v.base) /\ v.ulps = 0

EntInUnit(v) ==
    /\ ~v.null
    /\ RatLeq(One, v.arg)
    /\ (ArgBelowBase(v.arg, v.base) \/ ArgIsBase(v.arg, v.base))
    /\ (v.arg = One => v.ulps >= 0)
    /\ (ArgIsBase(v.arg, v.base) => v.ulps <= 0)

ActiveCounts == SelectSeq(counts_list, LAMBDA c : c > 0)

\* C16: for a monthly count list with total > 0, entropy_norm lies in [0,1],
\* is exactly 0 when all commits fall in a single month, and exactly 1 when
\* every one of the M months has the same positive count (read for M >= 2:
\* with M = 1 the single-month case applies).
EntropyBounds ==
    (e_pc = "done" /\ sum(counts_list) > 0) =>
       /\ EntInUnit(e_out.entropy_norm)
       /\ (Len(ActiveCounts) = 1 => EntIsZero(e_out.entropy_norm))
       /\ (Len(months) >= 2 /\ Len(ActiveCounts) = Len(months) /\ AllEqual(counts_list)
             => EntIsOne(e_out.entropy_norm))

\* C17: entropy_norm is null exactly when the total of the month counts is
\* <= 0, and exactly 0 when the total is positive and there are M <= 1
\* months; M counts every month of the sequence, zero-count months included,
\* and zero-count months add nothing to the sum.
EntropyDegenerateCases ==
    e_pc = "done" =>
       LET v == e_out.entropy_norm
           T == sum(counts_list)
           M == Len(months)
       IN  /\ v.null <=> T <= 0
           /\ (T > 0 /\ M <= 1) => EntIsZero(v)
           /\ (T > 0 /\ M >= 2 /\ Len(ActiveCounts) >= 2 /\ Len(ActiveCounts) < M) =>
                /\ v.base = Pow(M, T)
                /\ v.arg = Rat(Pow(T, T), PowProduct(ActiveCounts))
                /\ ~EntIsOne(v)

\* a finished run over three months, the middle one without a commit
EntropyDegenerateWitness ==
    /\ e_pc = "done" /\ counts_list = <<1, 0, 1>>
    /\ ~e_out.entropy_norm.null /\ e_out.entropy_norm.base = 9
    /\ e_out.entropy_norm.arg = Rat(4, 1)

MonthIndex(d) == d.year * 12 + d.month

\* C18: for since <= until, build_windows returns a strictly increasing,
\* gap-free list of window starts (week: Mondays 7 days apart, from the Monday
\* of since's week to the Monday of until's week; month: consecutive firsts
\* of month from since's month to until's month), and the window id of every
\* date d with since <= d <= until is an element of the list.
WindowSequence ==
    (w_pc = "built" /\ DateLeq(w_since, w_until)) =>
       LET n == Len(windows)
       IN  /\ n >= 1
           /\ \A i \in 1..(n - 1) : toordinal(windows[i]) < toordinal(windows[i + 1])
           /\ w_granularity = "week" =>
                /\ \A i \in 1..n : weekday(windows[i]) = 0
                /\ \A i \in 1..(n - 1) :
                      toordinal(windows[i + 1]) - toordinal(windows[i]) = 7
                /\ toordinal(w_since) - toordinal(windows[1]) \in 0..6
                /\ toordinal(w_until) - toordinal(windows[n]) \in 0..6
           /\ w_granularity = "month" =>
                /\ \A i \in 1..n : windows[i].day = 1
                /\ \A i \in 1..(n - 1) :
                      MonthIndex(windows[i + 1]) = MonthIndex(windows[i]) + 1
                /\ MonthIndex(windows[1]) = MonthIndex(w_since)
                /\ MonthIndex(windows[n]) = MonthIndex(w_until)
           /\ (w_date # << >> /\ DateLeq(w_since, w_date) /\ DateLeq(w_date, w_until)) =>
                \E i \in 1..n : windows[i] = w_wid

\* weekly windows across the year end, and a Sunday mapped to its Monday
WindowSequenceWitness ==
    /\ w_pc = "built" /\ w_granularity = "week"
    /\ w_since = Date(2023, 12, 22) /\ w_until = Date(2024, 1, 3)
    /\ windows = <<Date(2023, 12, 18), Date(2023, 12, 25), Date(2024, 1, 1)>>
    /\ w_date = Date(2023, 12, 31) /\ w_wid = Date(2023, 12, 25)

(***************************************************************************)
(* Rhythm statistics: the counts of all built windows, and the mean and    *)
(* the variance they are required to have.                                 *)
(***************************************************************************)
\* health-doc commits whose date falls in window w
CommitsInWindow(w) ==
    SumCounts(health_dates,
              { d \in DOMAIN health_dates : window_id_for_date(d, r_args.granularity) = w })

WindowCounts == [i \in 1..Len(RhythmWindows) |-> CommitsInWindow(RhythmWindows[i])]

SumOfSquares(xs) == sum([i \in 1..Len(xs) |-> xs[i] * xs[i]])

\* the square of a real number of the form b * sqrt(q)
SquareOfRoot(x) == RatMul(RatMul(x.b, x.b), x.q)

\* C19: mu is the sum of the counts of all built windows, zero-count windows
\* included, divided by the number of windows; sigma is the sample standard
\* deviation (sigma^2 = sum (c - mu)^2 / (n-1)) for n >= 2 windows, and 0 for
\* fewer than 2 windows.
RhythmMeanAndDeviation ==
    r_pc = "done" =>
       LET n == Len(WindowCounts)
           T == sum(WindowCounts)
       IN  /\ r_metrics.window_count = n
           /\ n >= 1 => r_metrics.mu = Rat(T, n)
           /\ n >= 2 =>
                /\ r_metrics.sigma.a = Zero
                /\ Sign(r_metrics.sigma) >= 0
                /\ SquareOfRoot(r_metrics.sigma) =
                      Rat(n * SumOfSquares(WindowCounts) - T * T, n * (n - 1))
           /\ n < 2 => RealEqRat(r_metrics.sigma, Zero)

\* four monthly windows with counts 1, 2, 0, 1: mu = 1, sigma^2 = 2/3
RhythmMeanAndDeviationWitness ==
    /\ r_pc = "done" /\ r_args.granularity = "month"
    /\ WindowCounts = <<1, 2, 0, 1>>
    /\ r_metrics.mu = One
    /\ SquareOfRoot(r_metrics.sigma) = Rat(2, 3)

\* x - y for two reals over the same square root
RealSub(x, y) ==
    [a |-> RatSub(x.a, y.a), b |-> RatSub(x.b, y.b),
     q |-> IF x.q = Zero THEN y.q ELSE x.q]

RealTimesRat(x, r) == [a |-> RatMul(x.a, r), b |-> RatMul(x.b, r), q |-> x.q]

\* C20: phi_c is 0 when CV is undefined (mu = 0); for 0 <= CV <= 0.5 it is
\* max(0, 1 - |CV - 0.25|/0.25); for CV > 0.5 it is 0.  It lies in [0,1], is
\* 1 exactly at CV = 0.25, and is 0 at CV = 0 and at CV = 0.5.
StabilityScore ==
    phi_pc = "done" =>
       LET cv == phi_out.cv
           phi == phi_out.phi_c
       IN  /\ IsNoneReal(cv) <=> phi_in.mu = Zero
           /\ ~IsNoneReal(phi)
           /\ IsNoneReal(cv) => RealEqRat(phi, Zero)
           /\ ~IsNoneReal(cv) =>
                /\ (RealGeqRat(cv, Zero) /\ RealLeqRat(cv, Rat(1, 4))) =>
                      Sign(RealSub(phi, RealTimesRat(cv, Rat(4, 1)))) = 0
                /\ (RealGeqRat(cv, Rat(1, 4)) /\ RealLeqRat(cv, Rat(1, 2))) =>
                      Sign(RealSub(RealAddRat(phi, Rat(-2, 1)),
                                   RealTimesRat(cv, Rat(-4, 1)))) = 0
                /\ ~RealLeqRat(cv, Rat(1, 2)) => RealEqRat(phi, Zero)
                /\ RealEqRat(phi, One) <=> RealEqRat(cv, Rat(1, 4))
                /\ (RealEqRat(cv, Zero) \/ RealEqRat(cv, Rat(1, 2))) => RealEqRat(phi, Zero)
           /\ RealGeqRat(phi, Zero) /\ RealLeqRat(phi, One)

\* sigma = sqrt(1/64) and mu = 1/2 give CV = 0.25 and the score 1
StabilityScoreWitness ==
    /\ phi_pc = "done"
    /\ phi_in.sigma = sqrt(Rat(1, 64)) /\ phi_in.mu = Rat(1, 2)
    /\ RealEqRat(phi_out.cv, Rat(1, 4))
    /\ RealEqRat(phi_out.phi_c, One)

(***************************************************************************)
(* The rhythm label.                                                       *)
(***************************************************************************)
RhythmLabels == { "inactive", "sparse", "stable", "unstable" }

\* the number of built windows that hold at least one health-doc commit
ActiveWindows == Cardinality({ i \in 1..Len(WindowCounts) : WindowCounts[i] > 0 })

\* sigma / mu <= t for the counts xs with a positive sum, compared through the
\* squares: n * (n * sum c^2 - T^2) * d^2 <= (n-1) * T^2 * a^2 for t = a/d >= 0
CvAtMost(xs, t) ==
    LET n == Len(xs)
        T == sum(xs)
    IN  /\ t.n >= 0
        /\ n >= 2 => n * (n * SumOfSquares(xs) - T * T) * t.d * t.d
                        <= (n - 1) * T * T * t.n * t.n

\* C21: the label is decided in this order: inactive iff mu = 0; otherwise
\* sparse iff the total of the window counts is below min_total_commits or
\* the active windows are fewer than min_active_windows; otherwise stable iff
\* CV <= cv_threshold; otherwise unstable.  Exactly one of the four labels is
\* returned.
LabelDecision ==
    r_pc = "done" =>
       LET T == sum(WindowCounts)
           lab == r_metrics.label
           thin == T < r_args.min_total_commits
                     \/ ActiveWindows < r_args.min_active_windows
           calm == CvAtMost(WindowCounts, r_args.cv_threshold)
       IN  /\ lab \in RhythmLabels
           /\ r_metrics.mu = Zero <=> T = 0
           /\ lab = "inactive" <=> r_metrics.mu = Zero
           /\ lab = "sparse" <=> (T > 0 /\ thin)
           /\ lab = "stable" <=> (T > 0 /\ ~thin /\ calm)
           /\ lab = "unstable" <=> (T > 0 /\ ~thin /\ ~calm)

\* enough commits in enough windows, spread too unevenly for the threshold
LabelDecisionWitness ==
    /\ r_pc = "done" /\ r_metrics.label = "unstable"
    /\ Len(WindowCounts) >= 2
    /\ sum(WindowCounts) >= r_args.min_total_commits
    /\ ActiveWindows >= r_args.min_active_windows
    /\ ~CvAtMost(WindowCounts, r_args.cv_threshold)

\* C22: when at least 2 windows all hold the same positive count, the total
\* reaches min_total_commits and the window count reaches
\* min_active_windows, the metrics are sigma = 0, CV = 0, phi_c = 0,
\* active_window_rate = 1 and the label stable: a stable label next to the
\* lowest score.
LabelAndScoreIndependent ==
    (/\ r_pc = "done"
     /\ Len(WindowCounts) >= 2
     /\ WindowCounts[1] > 0
     /\ \A i \in 1..Len(WindowCounts) : WindowCounts[i] = WindowCounts[1]
     /\ sum(WindowCounts) >= r_args.min_total_commits
     /\ Len(WindowCounts) >= r_args.min_active_windows)
    => /\ RealEqRat(r_metrics.sigma, Zero)
       /\ ~IsNoneReal(r_metrics.cv) /\ RealEqRat(r_metrics.cv, Zero)
       /\ RealEqRat(r_metrics.phi_c, Zero)
       /\ r_metrics.active_window_rate = One
       /\ r_metrics.label = "stable"

\* three weekly windows with one health-doc commit each
LabelAndScoreIndependentWitness ==
    /\ r_pc = "done" /\ r_args.granularity = "week"
    /\ WindowCounts = <<1, 1, 1>>
    /\ r_args.min_total_commits <= 3 /\ r_args.min_active_windows <= 3
    /\ r_metrics.label = "stable" /\ RealEqRat(r_metrics.phi_c, Zero)

(***************************************************************************)
(* Degenerate statistics.                                                  *)
(***************************************************************************)
\* C23: no statistic ends in a division by zero, whatever the counts are (an
\* empty list, all-zero counts, a zero total): compute_metrics, mean,
\* stdev_sample, the rate columns of the intention summary, top_k_share, gini
\* and bus_x all return a value; with mu = 0 compute_metrics returns the label
\* inactive, cv null, phi_c 0 and active_window_rate 0.
DegenerateStatisticsNeverRaise ==
    m_pc = "done" =>
       LET m == m_out.rhythm
       IN  /\ ~Raised(m_out.mean) /\ ~RaisedReal(m_out.stdev)
           /\ ~Raised(m.mu) /\ ~RaisedReal(m.sigma) /\ ~RaisedReal(m.cv)
           /\ ~RaisedReal(m.phi_c) /\ ~Raised(m.active_window_rate)
           /\ m.label \in RhythmLabels
           /\ \A i \in DOMAIN m_out.rates : ~Raised(m_out.rates[i])
           /\ ~Raised(m_out.own_top_k) /\ ~Raised(m_out.own_top_k1)
           /\ ~Raised(m_out.con_top_k) /\ ~Raised(m_out.con_top_k1)
           /\ ~Raised(m_out.month_top_k) /\ ~Raised(m_out.month_top_k1)
           /\ ~Raised(m_out.con_gini) /\ ~Raised(m_out.month_gini)
           /\ m_out.own_bus_x \in 0..Len(m_counts)
           /\ sum(m_counts) = 0 =>
                /\ m.mu = Zero /\ m.label = "inactive" /\ IsNoneReal(m.cv)
                /\ RealEqRat(m.phi_c, Zero) /\ m.active_window_rate = Zero
                /\ \A i \in DOMAIN m_out.rates : IsNone(m_out.rates[i])

\* no window and no contributor at all
DegenerateStatisticsWitness ==
    /\ m_pc = "done" /\ m_counts = << >>
    /\ m_out.rhythm.window_count = 0 /\ m_out.rhythm.label = "inactive"
    /\ m_out.mean = Zero /\ m_out.own_top_k = Zero /\ m_out.own_bus_x = 0

(***************************************************************************)
(* The log parsers.                                                        *)
(***************************************************************************)
HasTab(s) == Contains(s, "\t")

\* the header of commit c has the number of fields the tool expects (no field
\* holds a tab) and its timestamp is an integer
WellFormed(tool, c) ==
    /\ ~HasTab(c.ct)
    /\ tool \in { "ownership", "concentration" } => ~HasTab(c.an) /\ ~HasTab(c.ae)
    /\ int(c.ct) # << >>

\* the non-blank lines that follow the header of commit c
NonBlank(c) == SelectSeq([i \in DOMAIN c.names |-> Strip(c.names[i])], LAMBDA f : f # "")

\* the positions of the well-formed commits, in log order
RECURSIVE WellFormedFrom(_, _)
WellFormedFrom(tool, i) ==
    IF i > Len(l_log) THEN << >>
    ELSE (IF WellFormed(tool, l_log[i]) THEN <<i>> ELSE << >>) \o WellFormedFrom(tool, i + 1)

\* C24: a commit whose header line does not split into the expected number
\* of fields, or whose timestamp is not an integer, yields no record and the
\* lines after it belong to no commit; every other commit is yielded exactly
\* once, in log order, with exactly the non-blank lines up to the next header
\* as its files.
MalformedRecordsSkipped ==
    l_pc = "done" =>
       \A t \in LogTools :
          LET good == WellFormedFrom(t, 1)
              out == l_parser[t].out
          IN  /\ Len(out) = Len(good)
              /\ \A k \in 1..Len(good) :
                    IF t = "concentration"
                    THEN out[k].epoch = int(l_log[good[k]].at)[1]
                    ELSE /\ out[k].sha = ShaOf(good[k])
                         /\ out[k].commit_dt = int(l_log[good[k]].ct)[1]
                         /\ out[k].files = NonBlank(l_log[good[k]])

\* a commit without a readable timestamp between two commits that are kept
MalformedRecordsWitness ==
    /\ l_pc = "done" /\ Len(l_log) = 3
    /\ l_log[2].ct = "soon"
    /\ Len(l_parser["rhythm"].out) = 2
    /\ l_parser["rhythm"].out[1].sha = "c1" /\ l_parser["rhythm"].out[2].sha = "c3"
    /\ l_parser["rhythm"].out[1].files = << "README.md" >>

(***************************************************************************)
(* The engines and their output files.                                     *)
(***************************************************************************)
\* the engines that wrote path q
Writers(q) == { fs[q][i] : i \in 1..Len(fs[q]) }

SamePrefix == \A e1, e2 \in Engines : x_prefix[e1] = x_prefix[e2]

\* C25: when the four engines are run for the same repository with the same
\* output prefix, in any interleaving, no output path is written by more
\* than one engine.
DisjointOutputs ==
    SamePrefix => \A q \in DOMAIN fs : Cardinality(Writers(q)) <= 1

\* C26: each engine calls git log once and never again; it writes an output
\* file only after the call succeeded and the whole log was consumed; when
\* the call exits non-zero the engine aborts and writes no output file.
LogFailureIsFatal ==
    \A e \in Engines :
       /\ Len(x_calls[e]) <= 1
       /\ x_pc[e] # "start" => Len(x_calls[e]) = 1
       /\ written(e) > 0 => x_pc[e] \in { "write", "done" } /\ x_calls[e] = << 0 >>
       /\ (x_calls[e] # << >> /\ x_calls[e][1] # 0) => x_pc[e] = "aborted" /\ written(e) = 0

\* git failed for the rhythm engine while the entropy engine ran to its end
LogFailureWitness ==
    /\ x_pc["rhythm"] = "aborted" /\ x_calls["rhythm"] = << 128 >> /\ written("rhythm") = 0
    /\ x_pc["entropy"] = "done" /\ written("entropy") >= 3

(***************************************************************************)
(* The files of a commit record.                                           *)
(***************************************************************************)
DuplicateFree(q) == \A i, j \in DOMAIN q : q[i] = q[j] => i = j

\* C27: the files of every CommitRecord are duplicate-free: a path that
\* occurs more than once among the file lines of a commit is kept once, and
\* counts once toward the health-file count and the other-file count of the
\* commit.
CommitFilesDuplicateFree ==
    l_pc = "done" =>
       \A t \in NameOnlyTools :
          \A k \in DOMAIN l_parser[t].out :
             LET files == l_parser[t].out[k].files
                 cls == intention_classify(files, [n |-> 1, d |-> 2])
             IN  /\ DuplicateFree(files)
                 /\ Len(cls.health_files) = Cardinality(Range(cls.health_files))
                 /\ Len(cls.other_files) = Cardinality(Range(cls.other_files))

(***************************************************************************)
(* The tools side by side.                                                 *)
(***************************************************************************)
\* C28: for the same commits the number of health-doc-touch commits is the
\* same in the rhythm tool, the intention tool, the ownership tool (all
\* authors) and the entropy tool, whatever the author names and e-mail
\* addresses are.
CrossToolAgreement ==
    l_pc = "done" =>
       /\ l_counts.intention = l_counts.rhythm
       /\ l_counts.ownership = l_counts.rhythm
       /\ l_counts.entropy = l_counts.rhythm

(***************************************************************************)
(* Windowing.                                                              *)
(***************************************************************************)
\* len(health_details): the health-doc-touch commits collected from the log
total_health_file_commits == SumCounts(health_dates, DOMAIN health_dates)

\* C29: no qualifying commit is lost by windowing: the health_file_commits
\* value of the metrics row, the sum of the per-window counts over the built
\* windows, equals the number of health-doc-touch commits collected from the
\* log (total_health_file_commits of the summary).
NoCommitLostByWindowing ==
    r_pc = "done" => r_metrics.health_file_commits = total_health_file_commits

(***************************************************************************)
(* The count tables of the ownership tool.                                 *)
(***************************************************************************)
\* every identity of the attribution table has at most the count it has in
\* the all-author table
TableLeq(attr_d, all_d) ==
    \A aid \in DOMAIN attr_d : aid \in DOMAIN all_d /\ attr_d[aid] <= all_d[aid]

\* the touch table is the per-identity sum of the three sub-category tables
TableSum(touch, only, dom, nondom) ==
    /\ DOMAIN touch = (DOMAIN only) \cup (DOMAIN dom) \cup (DOMAIN nondom)
    /\ \A aid \in DOMAIN touch : touch[aid] = Get(only, aid) + Get(dom, aid) + Get(nondom, aid)

\* C30: after any prefix of the commits, in every category (touch, only,
\* dominant, non-dominant) and for every identity the attribution count is
\* at most the all-author count, with equality for every identity when bots
\* are included; the touch table is the per-identity sum of the three
\* sub-category tables; the reported contributors of a category never exceed
\* its reported commits.
AttributionWithinAllAuthors ==
    pc \in { "loop", "done" } =>
       /\ TableLeq(ownership.counts_touch_attr, ownership.counts_touch_all)
       /\ TableLeq(ownership.counts_only_attr, ownership.counts_only_all)
       /\ TableLeq(ownership.counts_dom_attr, ownership.counts_dom_all)
       /\ TableLeq(ownership.counts_nondom_attr, ownership.counts_nondom_all)
       /\ include_bots =>
            /\ ownership.counts_touch_attr = ownership.counts_touch_all
            /\ ownership.counts_only_attr = ownership.counts_only_all
            /\ ownership.counts_dom_attr = ownership.counts_dom_all
            /\ ownership.counts_nondom_attr = ownership.counts_nondom_all
       /\ TableSum(ownership.counts_touch_all, ownership.counts_only_all,
                   ownership.counts_dom_all, ownership.counts_nondom_all)
       /\ TableSum(ownership.counts_touch_attr, ownership.counts_only_attr,
                   ownership.counts_dom_attr, ownership.counts_nondom_attr)
       /\ pc = "done" =>
            /\ own_row.health_docs_touch.contributors <= own_row.health_docs_touch.commits
            /\ own_row.health_docs_only.contributors <= own_row.health_docs_only.commits
            /\ own_row.health_docs_dominant.contributors
                  <= own_row.health_docs_dominant.commits
            /\ own_row.health_docs_non_dominant.contributors
                  <= own_row.health_docs_non_dominant.commits

\* a bot and a person both made health-doc commits and bots are not
\* attributed: the bot is in the all-author table only
AttributionWitness ==
    /\ pc = "done" /\ ~include_bots
    /\ \E aid \in DOMAIN ownership.counts_touch_all :
          aid \notin DOMAIN ownership.counts_touch_attr
    /\ ownership.counts_touch_attr # << >>
    /\ own_row.health_docs_touch.contributors < own_row.health_docs_touch.commits

====
